---- MODULE Spec2Model ----
(***************************************************************************)
(* Model of the PhilGEPS scraper core: the cookie relay and the            *)
(* thread-local browser pool (final_working_scraper.py), the listing       *)
(* crawl (collect_detail_links), the detail fetch (parse_detail), the      *)
(* category orchestrator and the merge (multi_category_scraper.py).        *)
(*                                                                         *)
(* Spec       scrape_categories_parallel: category threads, their detail   *)
(*            worker pools, the shared cookie relay and the sessions.      *)
(* SpecRelay  threads calling the cookie relay, one lock step at a time.   *)
(* SpecPool   threads calling parse_detail and the browser pool directly.  *)
(* SpecCrawl  the pagination loop of collect_detail_links.                 *)
(* SpecMerge  merge_csv_files over bounded category files.                 *)
(* SpecResults the results accumulator under results_lock, step by step.   *)
(* SpecBatch  one attempt's detail pool appending under rows_lock.         *)
(* SpecRun    one run of a run mode: scraping, the stop event, the merge.   *)
(* SpecLocks  the cookie lock, the rows lock and the results lock together. *)
(* SpecDate   clean_date (data_cleaner.py) on one date string.              *)
(* SpecCurrency clean_currency (data_cleaner.py) on one amount string.      *)
(* SpecContact _parse_contact_blob on one contact blob.                     *)
(* SpecDriver the sequential drivers: the command line and run_scraper.     *)
(* SpecDedup  a sequential driver next to a merge_csv_files call.           *)
(* SpecGui    the START and STOP buttons and the worker threads of the GUI. *)
(***************************************************************************)
EXTENDS Integers, Sequences, FiniteSets, TLC

\* ------------------------------------------------------------------ bounds
NumCats == 2
MaxLinks == 2
MaxRetry == 1
max_detail_workers == 1
\* The largest max_category_workers a run is configured with.
MaxCatWorkers == 2

Cats == 1..NumCats
Slots == 1..max_detail_workers
Workers == Cats \X Slots
\* A thread is <<category, slot, attempt>>: slot 0 is the category thread that
\* runs scrape_category; each attempt's ThreadPoolExecutor starts new threads.
AllThreads == Cats \X ({0} \cup Slots) \X (0..MaxRetry)
CatThread(c) == <<c, 0, 0>>
\* The threads of SpecPool, which call the relay and the pool directly.
NumThreads == 2
PoolThreads == {<<1, k, 0>> : k \in 1..NumThreads}
NoThread == <<>>
NumSnapshots == 2
MaxSessions == 3

VARIABLES
  category_ids, retry_count,
  catPc, attempt, backoffs, detail_links, nextIdx, rows, catResult, raw_files,
  results,
  wpc, wurl, wcookies,
  relay, cookiesLock, published, lastPub,
  tl, sessions,
  tpc, tcookies, targ, tres, acq, returned,
  crawlPc, page_count, links, seen_links, browser_open, crawl_out,
  publishes, lastPage, ended,
  mergePc, all_rows, seen_refids, merged_file,
  max_category_workers,
  session_jar, jarWriters,
  resultsLock, rtmp, rowsLock, outcomes,
  records,
  mode, stop_event, runPc, steps, afterStop, raised,
  date_in, date_out,
  amount_str, amount_out,
  contact_text, contact_out,
  driver, drvPc, target_urls, scraped, output_file,
  is_scraping, start_button, stop_button, scraper_threads, progress_queue

orchVars == <<category_ids, retry_count, catPc, attempt, backoffs,
              detail_links, nextIdx, rows, catResult, raw_files, results,
              records>>
workerVars == <<wpc, wurl, wcookies>>
relayVars == <<relay, cookiesLock, published, lastPub>>
poolVars == <<tl, sessions>>
threadVars == <<tpc, tcookies, targ, tres, acq, returned>>
crawlVars == <<crawlPc, page_count, links, seen_links, browser_open,
               crawl_out, publishes, lastPage, ended>>
mergeVars == <<mergePc, all_rows, seen_refids, merged_file>>
jarVars == <<session_jar, jarWriters>>
lockVars == <<resultsLock, rtmp, rowsLock, outcomes>>
runVars == <<mode, stop_event, runPc, steps, afterStop, raised>>
dateVars == <<date_in, date_out>>
currencyVars == <<amount_str, amount_out>>
contactVars == <<contact_text, contact_out>>
driverVars == <<driver, drvPc, target_urls, scraped, output_file>>
guiVars == <<is_scraping, start_button, stop_button, scraper_threads,
             progress_queue>>
extVars == <<currencyVars, contactVars, driverVars, guiVars>>
vars == <<orchVars, workerVars, relayVars, poolVars, threadVars, crawlVars,
          mergeVars, max_category_workers, jarVars, lockVars, runVars,
          dateVars, extVars>>

\* What the actions of each specification leave alone.
offOrchJ == <<threadVars, crawlVars, mergeVars, max_category_workers, lockVars,
              runVars, dateVars, extVars>>
offOrch == <<offOrchJ, jarVars>>
offPoolJ == <<orchVars, workerVars, crawlVars, mergeVars, max_category_workers,
              lockVars, runVars, dateVars, extVars>>
offPool == <<offPoolJ, jarVars>>
offCrawl == <<orchVars, workerVars, cookiesLock, poolVars, threadVars, mergeVars,
              max_category_workers, jarVars, lockVars, runVars, dateVars, extVars>>
offMerge == <<category_ids, retry_count, catPc, attempt, backoffs, detail_links,
              nextIdx, rows, catResult, raw_files, workerVars, relayVars,
              poolVars, threadVars, crawlVars, max_category_workers, jarVars,
              lockVars, records, runVars, dateVars, extVars>>

\* ------------------------------------------------------------ cookie relay
\* A cookie is [name, value]; the value identifies the listing crawl (the
\* server-side session) that produced it.
CrawlCookies(c) == <<[name |-> "ASP.NET_SessionId", value |-> c]>>

\* A setter that extends the stored list instead of replacing it.
set_playwright_cookies_extend(old, cookies) == old \o cookies

\* _set_playwright_cookies: _PLAYWRIGHT_COOKIES = list(cookies)
set_playwright_cookies(old, cookies) == cookies

\* get_playwright_cookies: return list(_PLAYWRIGHT_COOKIES)
get_playwright_cookies(store) == store

\* _sync_cookies_to_requests_session: every cookie of the snapshot is set in
\* the jar of the module's one requests.Session, under its name; an empty
\* snapshot leaves the jar alone.
sync_cookies_to_requests_session(jar, cookies) ==
  LET names == {cookies[i].name : i \in DOMAIN cookies}
      last(n) == CHOOSE i \in DOMAIN cookies :
                   /\ cookies[i].name = n
                   /\ \A j \in DOMAIN cookies : j > i => cookies[j].name # n
  IN [n \in DOMAIN jar \cup names |->
        IF n \in names THEN cookies[last(n)].value ELSE jar[n]]

\* The threads that have written the jar so far, after thread t has run
\* _sync_cookies_to_requests_session with this snapshot.
JarWrittenBy(t, cookies) ==
  IF cookies = <<>> THEN jarWriters ELSE jarWriters \cup {t}

\* ------------------------------------------------------------ browser pool
NoSession == <<>>
TlInit == [ready |-> FALSE, context |-> NoSession]

\* A module-level cache in place of the thread-local one.
TlKeyGlobal(t) == <<1, 1, 0>>

\* _tl = threading.local(): the attributes are those of the calling thread.
TlKey(t) == t

NewSessionId(t) == <<t, Cardinality({s \in DOMAIN sessions : s[1] = t}) + 1>>

\* A cache hit that injects the caller's snapshot into the cached context.
get_thread_context_reinject(t, cookies) ==
  IF ~tl[TlKey(t)].ready
  THEN LET sid == NewSessionId(t) IN
       /\ sessions' = sessions @@
             (sid :> [owner |-> t, cookies |-> cookies, live |-> TRUE])
       /\ tl' = [tl EXCEPT ![TlKey(t)] = [ready |-> TRUE, context |-> sid]]
  ELSE /\ sessions' = [sessions EXCEPT
                          ![tl[TlKey(t)].context].cookies = cookies]
       /\ UNCHANGED tl

\* A cache miss that takes the closed session of the thread into use again.
get_thread_context_reopen(t, cookies) ==
  IF ~tl[TlKey(t)].ready /\ tl[TlKey(t)].context = NoSession
  THEN LET sid == NewSessionId(t) IN
       /\ sessions' = sessions @@
             (sid :> [owner |-> t, cookies |-> cookies, live |-> TRUE])
       /\ tl' = [tl EXCEPT ![TlKey(t)] = [ready |-> TRUE, context |-> sid]]
  ELSE IF ~tl[TlKey(t)].ready
  THEN /\ sessions' = [sessions EXCEPT ![tl[TlKey(t)].context].live = TRUE]
       /\ tl' = [tl EXCEPT ![TlKey(t)].ready = TRUE]
  ELSE UNCHANGED <<tl, sessions>>

\* _get_thread_context(cookies), called by thread t; the value returned is
\* tl'[TlKey(t)].context.
get_thread_context(t, cookies) ==
  IF ~tl[TlKey(t)].ready
  THEN LET sid == NewSessionId(t) IN
       /\ sessions' = sessions @@
             (sid :> [owner |-> t, cookies |-> cookies, live |-> TRUE])
       /\ tl' = [tl EXCEPT ![TlKey(t)] = [ready |-> TRUE, context |-> sid]]
  ELSE UNCHANGED <<tl, sessions>>

\* A shutdown that closes the sessions of every thread.
shutdown_every_browser(t) ==
  IF tl[TlKey(t)].ready
  THEN /\ sessions' = [sid \in DOMAIN sessions |->
                          [sessions[sid] EXCEPT !.live = FALSE]]
       /\ tl' = [u \in DOMAIN tl |-> [tl[u] EXCEPT !.ready = FALSE]]
  ELSE UNCHANGED <<tl, sessions>>

\* shutdown_thread_browser(), called by thread t.
shutdown_thread_browser(t) ==
  IF tl[TlKey(t)].ready
  THEN /\ sessions' = [sessions EXCEPT ![tl[TlKey(t)].context].live = FALSE]
       /\ tl' = [tl EXCEPT ![TlKey(t)].ready = FALSE]
  ELSE UNCHANGED <<tl, sessions>>

\* ------------------------------------------------------------ parse_detail
EmptyRecord == [x \in {} |-> 0]
\* m = re.search(r"refID=(\d+)", url): urls 1 and 2 are two hrefs of the
\* notice with refID 1 that differ in another query parameter; every later
\* url u is the href of the notice with refID u - 1.
RefIdOf(url) == IF url <= 2 THEN 1 ELSE url - 1
Record(url) == [refID |-> RefIdOf(url), url |-> url]

\* A handler that closes the page only where an error is caught.
PageClosesOnErrorOnly(failed) == IF failed THEN 1 ELSE 0

\* The page.close() calls of one parse_detail call whose page was opened:
\* the except branch closes the page before "return {}", and the finally
\* clause closes it on every way out of the try block.
PageCloses(failed) == IF failed THEN 2 ELSE 1

\* The body of parse_detail after the page was opened.  gotoOK: goto, the
\* network-idle wait and the interstitial probe raise nothing; inter1: the
\* interstitial is shown; reloadOK: reload and re-wait raise nothing; inter2:
\* the interstitial is still shown after the reload; readOK: the field reads
\* and page.content() raise nothing.
parse_detail_body(url, gotoOK, inter1, reloadOK, inter2, readOK) ==
  LET reloads == IF gotoOK /\ inter1 THEN 1 ELSE 0
      shown == IF inter1 THEN inter2 ELSE FALSE
      failed == ~gotoOK \/ (inter1 /\ ~reloadOK) \/ ~readOK
      page == IF PageCloses(failed) > 0 THEN "closed" ELSE "open"
  IN IF failed
     THEN [outcome |-> "empty", row |-> EmptyRecord, reloads |-> reloads,
           interstitial |-> shown, page |-> page]
     ELSE [outcome |-> "record", row |-> Record(url), reloads |-> reloads,
           interstitial |-> shown, page |-> page]

\* What parse_detail can return for a url, over every behaviour of the site.
ParseDetailResults(url) ==
  {parse_detail_body(url, gotoOK, inter1, reloadOK, inter2, readOK) :
     gotoOK \in BOOLEAN, inter1 \in BOOLEAN, reloadOK \in BOOLEAN,
     inter2 \in BOOLEAN, readOK \in BOOLEAN}

\* No page exists when the call raised before or in context.new_page().
Raised == [outcome |-> "raise", row |-> EmptyRecord, reloads |-> 0,
           interstitial |-> FALSE, page |-> "none"]
NoFetch == [outcome |-> "none", row |-> EmptyRecord, reloads |-> 0,
            interstitial |-> FALSE, page |-> "none"]
NoCall == [fetch |-> NoFetch, ctx |-> NoSession]

\* A test that lets every result through.
KeepRowAlways(row) == TRUE

\* process_detail_page: if row: (an empty dict is falsy)
KeepRow(row) == row # EmptyRecord

\* ------------------------------------------------------------ orchestrator
Running == {"running", "fetching", "returned"}
ResultsInit == [successful_categories |-> <<>>, failed_categories |-> <<>>,
                total_entries |-> 0, merged_entries |-> 0,
                duplicates_removed |-> 0]
\* A csv file: whether it exists, and its rows.
NoFile == [exists |-> FALSE, rows |-> <<>>]
File(rs) == [exists |-> TRUE, rows |-> rs]
NoResult == [success |-> FALSE, count |-> 0, error |-> "pending"]
ThreadOf(c, k) == <<c, k, attempt[c]>>

\* The variables of the other specifications, at rest.
OrchIdle ==
  /\ category_ids = <<>>
  /\ retry_count = 0
  /\ catPc = [c \in Cats |-> "absent"]
  /\ attempt = [c \in Cats |-> 0]
  /\ backoffs = [c \in Cats |-> 0]
  /\ detail_links = [c \in Cats |-> <<>>]
  /\ nextIdx = [c \in Cats |-> 1]
  /\ rows = [c \in Cats |-> <<>>]
  /\ records = [c \in Cats |-> 0]
  /\ catResult = [c \in Cats |-> NoResult]
  /\ raw_files = [c \in Cats |-> NoFile]
  /\ results = ResultsInit
  /\ wpc = [w \in Workers |-> "idle"]
  /\ wurl = [w \in Workers |-> 0]
  /\ wcookies = [w \in Workers |-> <<>>]

RelayInit ==
  /\ relay = <<>>
  /\ cookiesLock = NoThread
  /\ published = {<<>>}
  /\ lastPub = <<>>

ThreadsIdle ==
  /\ tpc = [t \in PoolThreads |-> "idle"]
  /\ tcookies = [t \in PoolThreads |-> <<>>]
  /\ targ = [t \in PoolThreads |-> <<>>]
  /\ tres = [t \in PoolThreads |-> NoCall]
  /\ acq = [t \in PoolThreads |-> NoSession]
  /\ returned = {}

NoPage == [failed |-> FALSE, nextOK |-> FALSE]

CrawlIdle ==
  /\ crawlPc = "idle"
  /\ page_count = 0
  /\ links = <<>>
  /\ seen_links = {}
  /\ browser_open = FALSE
  /\ crawl_out = <<>>
  /\ publishes = 0
  /\ lastPage = NoPage
  /\ ended = ""

MergeIdle ==
  /\ mergePc = "idle"
  /\ all_rows = <<>>
  /\ seen_refids = {}
  /\ merged_file = NoFile

\* SESSION = requests.Session(): an empty cookie jar.
JarIdle ==
  /\ session_jar = <<>>
  /\ jarWriters = {}

LocksIdle ==
  /\ resultsLock = NoThread
  /\ rtmp = [c \in Cats |-> 0]
  /\ rowsLock = NoThread
  /\ outcomes = <<>>

RunIdle ==
  /\ mode = "none"
  /\ stop_event = FALSE
  /\ runPc = "idle"
  /\ steps = {}
  /\ afterStop = {}
  /\ raised = [c \in Cats |-> {}]

NoDate == <<>>

DateIdle ==
  /\ date_in = NoDate
  /\ date_out = NoDate

NotRun == <<>>

CurrencyIdle ==
  /\ amount_str = <<>>
  /\ amount_out = NotRun

ContactIdle ==
  /\ contact_text = <<>>
  /\ contact_out = NotRun

DriverIdle ==
  /\ driver = "none"
  /\ drvPc = "idle"
  /\ target_urls = <<>>
  /\ scraped = <<>>
  /\ output_file = NoFile

GuiIdle ==
  /\ is_scraping = FALSE
  /\ start_button = "normal"
  /\ stop_button = "disabled"
  /\ scraper_threads = {}
  /\ progress_queue = <<>>

ExtIdle == CurrencyIdle /\ ContactIdle /\ DriverIdle /\ GuiIdle

Init ==
  /\ max_category_workers \in 1..MaxCatWorkers
  /\ category_ids \in {[i \in 1..n |-> i] : n \in 1..NumCats}
  /\ retry_count \in 0..MaxRetry
  /\ catPc = [c \in Cats |-> IF c <= Len(category_ids) THEN "queued" ELSE "absent"]
  /\ attempt = [c \in Cats |-> 0]
  /\ backoffs = [c \in Cats |-> 0]
  /\ detail_links = [c \in Cats |-> <<>>]
  /\ nextIdx = [c \in Cats |-> 1]
  /\ rows = [c \in Cats |-> <<>>]
  /\ records = [c \in Cats |-> 0]
  /\ catResult = [c \in Cats |-> NoResult]
  /\ raw_files = [c \in Cats |-> NoFile]
  /\ results = ResultsInit
  /\ wpc = [w \in Workers |-> "idle"]
  /\ wurl = [w \in Workers |-> 0]
  /\ wcookies = [w \in Workers |-> <<>>]
  /\ RelayInit
  /\ tl = [t \in AllThreads |-> TlInit]
  /\ sessions = <<>>
  /\ ThreadsIdle
  /\ CrawlIdle
  /\ MergeIdle
  /\ JarIdle
  /\ LocksIdle
  /\ RunIdle
  /\ DateIdle
  /\ ExtIdle

\* An executor that starts every submitted task at once.
ExecutorUnbounded(busy, max_workers) == TRUE

\* ThreadPoolExecutor(max_workers=n): a submitted task starts when fewer than
\* n of the executor's threads are busy.
ExecutorHasFreeThread(busy, max_workers) == busy < max_workers

\* An attempt that goes on with the list of the attempt before it.
KeepRows(old) == old

\* rows = []: every attempt that found links starts with an empty list.
FreshRows(old) == <<>>

\* A test that takes an empty list for extracted data.
HasRowsAlways(rs) == TRUE

\* if rows:
HasRows(rs) == rs # <<>>

\* executor.submit(scrape_single_category, cat_id): a category starts when one
\* of the max_category_workers threads is free.
StartCategory(c) ==
  /\ catPc[c] = "queued"
  /\ ExecutorHasFreeThread(Cardinality({d \in Cats : catPc[d] \in Running}),
                           max_category_workers)
  /\ catPc' = [catPc EXCEPT ![c] = "running"]
  /\ UNCHANGED <<records, category_ids, retry_count, attempt, backoffs, detail_links,
                 nextIdx, rows, catResult, raw_files, results>>
  /\ UNCHANGED <<workerVars, relayVars, poolVars, offOrch>>

\* A return that drops the reason string.
ReturnNoReason(c, success, count, error) ==
  /\ catPc' = [catPc EXCEPT ![c] = "returned"]
  /\ catResult' = [catResult EXCEPT ![c] =
        [success |-> success, count |-> count, error |-> ""]]
  /\ attempt' = attempt

\* return success, count, error
Return(c, success, count, error) ==
  /\ catPc' = [catPc EXCEPT ![c] = "returned"]
  /\ catResult' = [catResult EXCEPT ![c] =
        [success |-> success, count |-> count, error |-> error]]
  /\ attempt' = attempt

\* except Exception as e: last_error = ...; the for loop goes on to the next
\* attempt, or ends and the function returns False, 0, last_error.
HandleException(c) ==
  IF attempt[c] < retry_count
  THEN /\ attempt' = [attempt EXCEPT ![c] = @ + 1]
       /\ catPc' = [catPc EXCEPT ![c] = "running"]
       /\ UNCHANGED catResult
  ELSE Return(c, FALSE, 0, "Error scraping")

\* The sleep of a retry attempt (attempt > 0).
Backoff(c) == [backoffs EXCEPT ![c] = IF attempt[c] > 0 THEN @ + 1 ELSE @]

\* One attempt up to the worker pool: collect_detail_links raises.
AttemptCrawlRaises(c) ==
  /\ catPc[c] = "running"
  /\ backoffs' = Backoff(c)
  /\ records' = [records EXCEPT ![c] = 0]
  /\ HandleException(c)
  /\ UNCHANGED <<category_ids, retry_count, detail_links, nextIdx, rows,
                 raw_files, results>>
  /\ UNCHANGED <<workerVars, relayVars, poolVars, offOrch>>

\* collect_detail_links fails before the first page renders: it returns []
\* and publishes nothing.
AttemptNavError(c) ==
  /\ catPc[c] = "running"
  /\ backoffs' = Backoff(c)
  /\ records' = [records EXCEPT ![c] = 0]
  /\ Return(c, FALSE, 0, "No links found")
  /\ UNCHANGED <<category_ids, retry_count, detail_links, nextIdx, rows,
                 raw_files, results>>
  /\ UNCHANGED <<workerVars, relayVars, poolVars, offOrch>>

\* collect_detail_links runs its pagination loop, publishes the cookies of
\* its session and returns n links.
AttemptCrawl(c) ==
  /\ catPc[c] = "running"
  /\ backoffs' = Backoff(c)
  /\ records' = [records EXCEPT ![c] = 0]
  /\ relay' = set_playwright_cookies(relay, CrawlCookies(c))
  /\ published' = published \cup {CrawlCookies(c)}
  /\ lastPub' = CrawlCookies(c)
  /\ \E n \in 0..MaxLinks :
       IF n = 0
       THEN /\ Return(c, FALSE, 0, "No links found")
            /\ UNCHANGED <<detail_links, nextIdx, rows>>
       ELSE /\ detail_links' = [detail_links EXCEPT ![c] = [i \in 1..n |-> i]]
            /\ nextIdx' = [nextIdx EXCEPT ![c] = 1]
            /\ rows' = [rows EXCEPT ![c] = FreshRows(@)]
            /\ catPc' = [catPc EXCEPT ![c] = "fetching"]
            /\ UNCHANGED <<attempt, catResult>>
  /\ UNCHANGED <<category_ids, retry_count, raw_files, results>>
  /\ UNCHANGED <<workerVars, cookiesLock, poolVars, offOrch>>

\* A pool thread takes the next (idx, url) pair and enters parse_detail:
\* _sync_cookies_to_requests_session(); cookies = get_playwright_cookies().
WorkerStart(c, k) ==
  /\ catPc[c] = "fetching"
  /\ wpc[<<c, k>>] = "idle"
  /\ nextIdx[c] <= Len(detail_links[c])
  /\ wurl' = [wurl EXCEPT ![<<c, k>>] = detail_links[c][nextIdx[c]]]
  /\ nextIdx' = [nextIdx EXCEPT ![c] = @ + 1]
  /\ session_jar' = sync_cookies_to_requests_session(session_jar,
                                      get_playwright_cookies(relay))
  /\ jarWriters' = JarWrittenBy(ThreadOf(c, k), get_playwright_cookies(relay))
  /\ wcookies' = [wcookies EXCEPT ![<<c, k>>] = get_playwright_cookies(relay)]
  /\ wpc' = [wpc EXCEPT ![<<c, k>>] = "fetch"]
  /\ UNCHANGED <<records, category_ids, retry_count, catPc, attempt, backoffs,
                 detail_links, rows, catResult, raw_files, results>>
  /\ UNCHANGED <<relayVars, poolVars, offOrchJ>>

\* process_detail_page: the rest of parse_detail, then the append under
\* rows_lock; an exception out of parse_detail is caught and printed.
Finish(c, k, res) ==
  /\ rows' = [rows EXCEPT ![c] =
        IF res.outcome # "raise" /\ KeepRow(res.row) THEN Append(@, res.row)
        ELSE @]
  /\ records' = [records EXCEPT ![c] =
        IF res.outcome # "raise" /\ res.row # EmptyRecord THEN @ + 1 ELSE @]
  /\ wpc' = [wpc EXCEPT ![<<c, k>>] = "idle"]
  /\ wurl' = [wurl EXCEPT ![<<c, k>>] = 0]
  /\ wcookies' = [wcookies EXCEPT ![<<c, k>>] = <<>>]

\* _get_thread_context raises while it creates the session.
WorkerSessionFails(c, k) ==
  /\ wpc[<<c, k>>] = "fetch"
  /\ ~tl[TlKey(ThreadOf(c, k))].ready
  /\ Finish(c, k, Raised)
  /\ UNCHANGED <<category_ids, retry_count, catPc, attempt, backoffs,
                 detail_links, nextIdx, catResult, raw_files, results>>
  /\ UNCHANGED <<relayVars, poolVars, offOrch>>

\* context.new_page() raises.
WorkerPageFails(c, k) ==
  /\ wpc[<<c, k>>] = "fetch"
  /\ get_thread_context(ThreadOf(c, k), wcookies[<<c, k>>])
  /\ Finish(c, k, Raised)
  /\ UNCHANGED <<category_ids, retry_count, catPc, attempt, backoffs,
                 detail_links, nextIdx, catResult, raw_files, results>>
  /\ UNCHANGED <<relayVars, offOrch>>

WorkerFetch(c, k) ==
  /\ wpc[<<c, k>>] = "fetch"
  /\ get_thread_context(ThreadOf(c, k), wcookies[<<c, k>>])
  /\ \E res \in ParseDetailResults(wurl[<<c, k>>]) : Finish(c, k, res)
  /\ UNCHANGED <<category_ids, retry_count, catPc, attempt, backoffs,
                 detail_links, nextIdx, catResult, raw_files, results>>
  /\ UNCHANGED <<relayVars, offOrch>>

PoolIsDrained(c) ==
  /\ catPc[c] = "fetching"
  /\ nextIdx[c] > Len(detail_links[c])
  /\ \A k \in Slots : wpc[<<c, k>>] = "idle"

\* The executor has joined its threads: shutdown_thread_browser() on the
\* category thread, then the rows are written, or nothing was extracted.
PoolDrained(c) ==
  /\ PoolIsDrained(c)
  /\ shutdown_thread_browser(CatThread(c))
  /\ IF HasRows(rows[c])
     THEN \E w \in {"ok", "open_fails", "write_fails"} :
            /\ raw_files' = [raw_files EXCEPT ![c] =
                  CASE w = "ok" -> File(rows[c])
                    [] w = "open_fails" -> @
                    [] OTHER -> File(<<>>)]
            /\ IF w = "ok"
               THEN Return(c, TRUE, Len(rows[c]), "")
               ELSE HandleException(c)
     ELSE /\ Return(c, FALSE, 0, "No data extracted")
          /\ UNCHANGED raw_files
  /\ UNCHANGED <<records, category_ids, retry_count, backoffs, detail_links, nextIdx,
                 rows, results>>
  /\ UNCHANGED <<workerVars, relayVars, offOrch>>

\* scrape_single_category: the accumulator update under results_lock.
RecordResult(c) ==
  /\ catPc[c] = "returned"
  /\ results' =
       IF catResult[c].success
       THEN [results EXCEPT !.successful_categories = Append(@, c),
                            !.total_entries = @ + catResult[c].count]
       ELSE [results EXCEPT !.failed_categories =
                               Append(@, <<c, catResult[c].error>>)]
  /\ catPc' = [catPc EXCEPT ![c] = "recorded"]
  /\ UNCHANGED <<records, category_ids, retry_count, attempt, backoffs, detail_links,
                 nextIdx, rows, catResult, raw_files>>
  /\ UNCHANGED <<workerVars, relayVars, poolVars, offOrch>>

Next ==
  \/ \E c \in Cats : StartCategory(c)
  \/ \E c \in Cats : AttemptCrawlRaises(c)
  \/ \E c \in Cats : AttemptNavError(c)
  \/ \E c \in Cats : AttemptCrawl(c)
  \/ \E c \in Cats, k \in Slots : WorkerStart(c, k)
  \/ \E c \in Cats, k \in Slots : WorkerSessionFails(c, k)
  \/ \E c \in Cats, k \in Slots : WorkerPageFails(c, k)
  \/ \E c \in Cats, k \in Slots : WorkerFetch(c, k)
  \/ \E c \in Cats : PoolDrained(c)
  \/ \E c \in Cats : RecordResult(c)

Spec == Init /\ [][Next]_vars

\* --------------------------------------------------------------- SpecRelay
\* Threads that call get_playwright_cookies and _set_playwright_cookies in
\* any order, one lock step at a time.

\* The cookie lists a listing crawl can hand to _set_playwright_cookies.
Snapshot(v) == <<[name |-> "ASP.NET_SessionId", value |-> v],
                 [name |-> "BNI_persistence", value |-> v]>>
CookieLists == {Snapshot(v) : v \in 1..NumSnapshots}

\* with _COOKIES_LOCK: (the lock is free and the caller takes it)
AcquireCookiesLock(t) ==
  /\ cookiesLock = NoThread
  /\ cookiesLock' = t

\* A block that is left with the lock still held.
ReleaseCookiesLockMissing(t) ==
  /\ cookiesLock = t
  /\ UNCHANGED cookiesLock

\* The end of the with block: the lock is released.
ReleaseCookiesLock(t) ==
  /\ cookiesLock = t
  /\ cookiesLock' = NoThread

\* get_playwright_cookies() takes the lock ...
GetEnter(t) ==
  /\ tpc[t] = "idle"
  /\ AcquireCookiesLock(t)
  /\ tpc' = [tpc EXCEPT ![t] = "get_locked"]
  /\ UNCHANGED <<offPool, relay, published, lastPub, poolVars,
                 tcookies, targ, tres, acq, returned>>

\* ... and returns its copy of the snapshot.
GetCopy(t) ==
  /\ tpc[t] = "get_locked"
  /\ tcookies' = [tcookies EXCEPT ![t] = get_playwright_cookies(relay)]
  /\ ReleaseCookiesLock(t)
  /\ tpc' = [tpc EXCEPT ![t] = "got"]
  /\ UNCHANGED <<offPool, relay, published, lastPub, poolVars,
                 targ, tres, acq, returned>>

\* The caller is done with the copy.
GetReturn(t) ==
  /\ tpc[t] = "got"
  /\ tcookies' = [tcookies EXCEPT ![t] = <<>>]
  /\ tpc' = [tpc EXCEPT ![t] = "idle"]
  /\ UNCHANGED <<offPool, relayVars, poolVars,
                 targ, tres, acq, returned>>

\* _set_playwright_cookies(cookies) takes the lock ...
SetEnter(t, cookies) ==
  /\ tpc[t] = "idle"
  /\ AcquireCookiesLock(t)
  /\ targ' = [targ EXCEPT ![t] = cookies]
  /\ tpc' = [tpc EXCEPT ![t] = "set_locked"]
  /\ UNCHANGED <<offPool, relay, published, lastPub, poolVars,
                 tcookies, tres, acq, returned>>

\* ... and stores the new snapshot.
SetStore(t) ==
  /\ tpc[t] = "set_locked"
  /\ relay' = set_playwright_cookies(relay, targ[t])
  /\ published' = published \cup {targ[t]}
  /\ lastPub' = targ[t]
  /\ ReleaseCookiesLock(t)
  /\ targ' = [targ EXCEPT ![t] = <<>>]
  /\ tpc' = [tpc EXCEPT ![t] = "idle"]
  /\ UNCHANGED <<offPool, poolVars, tcookies, tres, acq,
                 returned>>

InitRelay ==
  /\ max_category_workers = MaxCatWorkers
  /\ OrchIdle
  /\ RelayInit
  /\ tl = [t \in PoolThreads |-> TlInit]
  /\ sessions = <<>>
  /\ ThreadsIdle
  /\ CrawlIdle
  /\ MergeIdle
  /\ JarIdle
  /\ LocksIdle
  /\ RunIdle
  /\ DateIdle
  /\ ExtIdle

NextRelay ==
  \/ \E t \in PoolThreads : GetEnter(t)
  \/ \E t \in PoolThreads : GetCopy(t)
  \/ \E t \in PoolThreads : GetReturn(t)
  \/ \E t \in PoolThreads, cookies \in CookieLists : SetEnter(t, cookies)
  \/ \E t \in PoolThreads : SetStore(t)

SpecRelay == InitRelay /\ [][NextRelay]_vars

\* ---------------------------------------------------------------- SpecPool
\* Threads that call parse_detail and shutdown_thread_browser in any order
\* while listing crawls publish snapshots.  The relay calls are atomic here:
\* SpecRelay has their lock steps.

\* What one return of _get_thread_context adds to the record of the calls:
\* acq[t] is the session of the caller's first call since its last release.
NoteAcquire(t, ctx) ==
  /\ acq' = [acq EXCEPT ![t] = IF @ = NoSession THEN ctx ELSE @]
  /\ returned' = returned \cup {<<t, ctx>>}

\* The model stops creating sessions at MaxSessions.
MayAcquire(t) ==
  tl[TlKey(t)].ready \/ Cardinality(DOMAIN sessions) < MaxSessions

\* A listing crawl ends: _set_playwright_cookies(context.cookies()).
Publish(cookies) ==
  /\ relay' = set_playwright_cookies(relay, cookies)
  /\ published' = published \cup {cookies}
  /\ lastPub' = cookies
  /\ UNCHANGED <<offPool, cookiesLock, poolVars, threadVars>>

\* parse_detail, first lines: _sync_cookies_to_requests_session();
\* cookies = get_playwright_cookies().
PdRead(t) ==
  /\ tpc[t] = "idle"
  /\ session_jar' = sync_cookies_to_requests_session(session_jar,
                                      get_playwright_cookies(relay))
  /\ jarWriters' = JarWrittenBy(t, get_playwright_cookies(relay))
  /\ tcookies' = [tcookies EXCEPT ![t] = get_playwright_cookies(relay)]
  /\ tpc' = [tpc EXCEPT ![t] = "ctx"]
  /\ UNCHANGED <<offPoolJ, relayVars, poolVars,
                 targ, tres, acq, returned>>

\* _get_thread_context raises while it creates the session: parse_detail
\* has no handler around it.
PdSessionFails(t) ==
  /\ tpc[t] = "ctx"
  /\ ~tl[TlKey(t)].ready
  /\ tres' = [tres EXCEPT ![t] = [fetch |-> Raised, ctx |-> NoSession]]
  /\ tpc' = [tpc EXCEPT ![t] = "done"]
  /\ UNCHANGED <<offPool, relayVars, poolVars,
                 tcookies, targ, acq, returned>>

\* context.new_page() raises, outside the try block as well.
PdPageFails(t) ==
  /\ tpc[t] = "ctx"
  /\ MayAcquire(t)
  /\ get_thread_context(t, tcookies[t])
  /\ NoteAcquire(t, tl'[TlKey(t)].context)
  /\ tres' = [tres EXCEPT ![t] =
        [fetch |-> Raised, ctx |-> tl'[TlKey(t)].context]]
  /\ tpc' = [tpc EXCEPT ![t] = "done"]
  /\ UNCHANGED <<offPool, relayVars, tcookies, targ>>

\* The page opens: the try block runs and parse_detail returns a dict.
PdFetch(t) ==
  /\ tpc[t] = "ctx"
  /\ MayAcquire(t)
  /\ get_thread_context(t, tcookies[t])
  /\ NoteAcquire(t, tl'[TlKey(t)].context)
  /\ \E res \in ParseDetailResults(1) :
       tres' = [tres EXCEPT ![t] =
          [fetch |-> res, ctx |-> tl'[TlKey(t)].context]]
  /\ tpc' = [tpc EXCEPT ![t] = "done"]
  /\ UNCHANGED <<offPool, relayVars, tcookies, targ>>

\* The caller has the result; the locals of the call are gone.
PdReturn(t) ==
  /\ tpc[t] = "done"
  /\ tpc' = [tpc EXCEPT ![t] = "idle"]
  /\ tcookies' = [tcookies EXCEPT ![t] = <<>>]
  /\ tres' = [tres EXCEPT ![t] = NoCall]
  /\ UNCHANGED <<offPool, relayVars, poolVars, targ, acq,
                 returned>>

\* shutdown_thread_browser()
Shutdown(t) ==
  /\ tpc[t] = "idle"
  /\ shutdown_thread_browser(t)
  /\ acq' = [acq EXCEPT ![t] = NoSession]
  /\ UNCHANGED <<offPool, relayVars, tpc, tcookies, targ,
                 tres, returned>>

InitPool ==
  /\ max_category_workers = MaxCatWorkers
  /\ OrchIdle
  /\ RelayInit
  /\ tl = [t \in PoolThreads |-> TlInit]
  /\ sessions = <<>>
  /\ ThreadsIdle
  /\ CrawlIdle
  /\ MergeIdle
  /\ JarIdle
  /\ LocksIdle
  /\ RunIdle
  /\ DateIdle
  /\ ExtIdle

NextPool ==
  \/ \E cookies \in CookieLists : Publish(cookies)
  \/ \E t \in PoolThreads : PdRead(t)
  \/ \E t \in PoolThreads : PdSessionFails(t)
  \/ \E t \in PoolThreads : PdPageFails(t)
  \/ \E t \in PoolThreads : PdFetch(t)
  \/ \E t \in PoolThreads : PdReturn(t)
  \/ \E t \in PoolThreads : Shutdown(t)

SpecPool == InitPool /\ [][NextPool]_vars

\* --------------------------------------------------------------- SpecCrawl
\* collect_detail_links: the initial navigation, the pagination loop, the
\* publish of the session's cookies and the return.
max_pages == 100
MaxAnchors == 2

\* A guard that lets one more page through.
LoopGuardInclusive(n) == n <= max_pages

\* while page_count < max_pages
LoopGuard(n) == n < max_pages

SeqsUpTo(S, n) == UNION {[1..k -> S] : k \in 0..n}

\* The anchors a listing page can show: one without href, the link first
\* listed on this page, and a link already collected from an earlier page.
NoHref == 0
Fresh(p) == p
Anchors(p) == {NoHref, Fresh(p)} \cup (IF links = <<>> THEN {} ELSE {links[1]})
PageContents(p) == SeqsUpTo(Anchors(p), MaxAnchors)

\* for a in page.locator(...).all(): every href not yet in seen_links goes to
\* current_page_links (acc), seen_links and links.
RECURSIVE CollectLinks(_, _, _)
CollectLinks(hrefs, seen, acc) ==
  IF hrefs = <<>>
  THEN [new |-> acc, seen |-> seen]
  ELSE LET h == Head(hrefs) IN
       IF h # NoHref /\ h \notin seen
       THEN CollectLinks(Tail(hrefs), seen \cup {h}, Append(acc, h))
       ELSE CollectLinks(Tail(hrefs), seen, acc)

\* A final pass that puts each new url in front of the ones before it.
RECURSIVE DedupReversed(_, _)
DedupReversed(us, seen) ==
  IF us = <<>> THEN <<>>
  ELSE IF Head(us) \in seen THEN DedupReversed(Tail(us), seen)
       ELSE DedupReversed(Tail(us), seen \cup {Head(us)}) \o <<Head(us)>>

\* The final pass: seen, out = set(), []; for u in links: ...
RECURSIVE Dedup(_, _)
Dedup(us, seen) ==
  IF us = <<>> THEN <<>>
  ELSE IF Head(us) \in seen THEN Dedup(Tail(us), seen)
       ELSE <<Head(us)>> \o Dedup(Tail(us), seen \cup {Head(us)})

\* What the "next" control does on a page.
NextStates == {"ok", "none", "disabled", "invisible", "probe_error",
               "click_error"}

\* The break taken in one iteration ("" for none), from the links found on
\* the page, the page number and the state of the "next" control.
PageStop(current_page_links, n, next) ==
  IF current_page_links = <<>> /\ n > 1 THEN "no_new"
  ELSE IF next = "ok" THEN "" ELSE next

\* A click error that returns from inside the loop, past the publish.
CrawlFinishReturnsOnClickError(reason, ls) ==
  /\ IF reason = "click_error"
     THEN UNCHANGED <<relay, published, lastPub, publishes>>
     ELSE /\ \E cookies \in CookieLists :
               /\ relay' = set_playwright_cookies(relay, cookies)
               /\ published' = published \cup {cookies}
               /\ lastPub' = cookies
          /\ publishes' = publishes + 1
  /\ browser_open' = FALSE
  /\ crawl_out' = Dedup(ls, {})
  /\ ended' = reason
  /\ crawlPc' = "returned"

\* After the loop: _set_playwright_cookies(context.cookies()),
\* browser.close(), the final dedup and the return.
CrawlFinish(reason, ls) ==
  /\ \E cookies \in CookieLists :
       /\ relay' = set_playwright_cookies(relay, cookies)
       /\ published' = published \cup {cookies}
       /\ lastPub' = cookies
  /\ publishes' = publishes + 1
  /\ browser_open' = FALSE
  /\ crawl_out' = Dedup(ls, {})
  /\ ended' = reason
  /\ crawlPc' = "returned"

\* The browser cannot be launched: the exception leaves the function.
CrawlLaunchFails ==
  /\ crawlPc = "idle"
  /\ crawlPc' = "raised"
  /\ UNCHANGED <<page_count, links, seen_links, browser_open, crawl_out,
                 publishes, lastPage, ended, relay, published, lastPub, offCrawl>>

\* A handler that publishes the cookies of the session that failed.
NavErrorPublishes ==
  /\ \E cookies \in CookieLists :
       /\ relay' = set_playwright_cookies(relay, cookies)
       /\ published' = published \cup {cookies}
       /\ lastPub' = cookies
  /\ publishes' = publishes + 1

\* except Exception as e: print(...); browser.close(); return [] -- the
\* handler does not call _set_playwright_cookies.
NavErrorRelay == UNCHANGED <<relay, published, lastPub, publishes>>

\* Priming, the category page or the wait for the result marker fails:
\* browser.close(); return [].
CrawlNavFails ==
  /\ crawlPc = "idle"
  /\ crawlPc' = "returned"
  /\ ended' = "nav_error"
  /\ crawl_out' = <<>>
  /\ browser_open' = FALSE
  /\ NavErrorRelay
  /\ UNCHANGED <<page_count, links, seen_links, lastPage, offCrawl>>

\* The first listing page has rendered.
CrawlNavOK ==
  /\ crawlPc = "idle"
  /\ crawlPc' = "loop"
  /\ browser_open' = TRUE
  /\ page_count' = 0
  /\ links' = <<>>
  /\ seen_links' = {}
  /\ UNCHANGED <<crawl_out, publishes, lastPage, ended, relay, published,
                 lastPub, offCrawl>>

\* One iteration of the while loop.  failed: the collection raises after
\* upto anchors were handled.
CrawlPage ==
  /\ crawlPc = "loop"
  /\ LoopGuard(page_count)
  /\ page_count' = page_count + 1
  /\ \E hrefs \in PageContents(page_count + 1), failed \in BOOLEAN,
        next \in NextStates :
       \E upto \in (IF ~failed THEN {Len(hrefs)}
                    ELSE IF hrefs = <<>> THEN {0} ELSE 0..(Len(hrefs) - 1)) :
         LET got == CollectLinks(SubSeq(hrefs, 1, upto), seen_links, <<>>)
             stop == PageStop(got.new, page_count + 1, next)
         IN /\ links' = links \o got.new
            /\ seen_links' = got.seen
            /\ lastPage' = [failed |-> failed, nextOK |-> (next = "ok")]
            /\ IF stop = ""
               THEN UNCHANGED <<crawlPc, browser_open, crawl_out, publishes,
                                ended, relay, published, lastPub>>
               ELSE CrawlFinish(stop, links \o got.new)
  /\ UNCHANGED offCrawl

\* The while condition is false: the page cap is reached.
CrawlCap ==
  /\ crawlPc = "loop"
  /\ ~LoopGuard(page_count)
  /\ CrawlFinish("cap", links)
  /\ UNCHANGED <<page_count, links, seen_links, lastPage, offCrawl>>

InitCrawl ==
  /\ max_category_workers = MaxCatWorkers
  /\ OrchIdle
  /\ \E cookies \in {<<>>} \cup CookieLists :
       /\ relay = cookies
       /\ lastPub = cookies
       /\ published = {<<>>, cookies}
  /\ cookiesLock = NoThread
  /\ tl = [t \in PoolThreads |-> TlInit]
  /\ sessions = <<>>
  /\ ThreadsIdle
  /\ CrawlIdle
  /\ MergeIdle
  /\ JarIdle
  /\ LocksIdle
  /\ RunIdle
  /\ DateIdle
  /\ ExtIdle

NextCrawl ==
  \/ CrawlLaunchFails
  \/ CrawlNavFails
  \/ CrawlNavOK
  \/ CrawlPage
  \/ CrawlCap

SpecCrawl == InitCrawl /\ [][NextCrawl]_vars

\* --------------------------------------------------------------- SpecMerge
\* merge_csv_files over the raw files of the categories it is given.
MaxRows == 2
NoRefId == 0

\* The rows a raw file can hold: refID (NoRefId: the empty string),
\* area_of_delivery and abc_php as written by scrape_category.
Notices ==
  { [refID |-> 1, area_of_delivery |-> "Manila", abc_php |-> 100],
    [refID |-> 1, area_of_delivery |-> "cebu", abc_php |-> 50],
    [refID |-> 2, area_of_delivery |-> "", abc_php |-> -1],
    [refID |-> NoRefId, area_of_delivery |-> "Cebu", abc_php |-> 100],
    [refID |-> 3, area_of_delivery |-> "ZZZZ", abc_php |-> 10] }
FileContents == SeqsUpTo(Notices, MaxRows)

\* str.upper() on the areas of Notices and on the substitute "ZZZ".
Upper(str) ==
  CASE str \in {"cebu", "Cebu"} -> "CEBU"
    [] str = "Manila" -> "MANILA"
    [] OTHER -> str

\* The place of an upper-case string in the order Python compares strings
\* by: "CEBU" < "MANILA" < "ZZZ" < "ZZZZ".
StrRank(str) ==
  CASE str = "CEBU" -> 1
    [] str = "MANILA" -> 2
    [] str = "ZZZ" -> 3
    [] OTHER -> 4

\* area = row.get("area_of_delivery", "").strip() or "ZZZ"; area.upper()
AreaRank(area) == StrRank(Upper(IF area = "" THEN "ZZZ" ELSE area))

\* float(abc_str) if abc_str else 0.0 (-1: no amount in the cell)
AbcAmount(abc) == IF abc < 0 THEN 0 ELSE abc

\* sort_key(a) <= sort_key(b) for (area.upper(), -abc_amount)
KeyLeq(a, b) ==
  \/ AreaRank(a.area_of_delivery) < AreaRank(b.area_of_delivery)
  \/ /\ AreaRank(a.area_of_delivery) = AreaRank(b.area_of_delivery)
     /\ AbcAmount(a.abc_php) >= AbcAmount(b.abc_php)

\* sorted(rows, key=sort_key): stable.
RECURSIVE InsertSorted(_, _)
InsertSorted(r, sorted) ==
  IF sorted = <<>> THEN <<r>>
  ELSE IF KeyLeq(Head(sorted), r)
       THEN <<Head(sorted)>> \o InsertSorted(r, Tail(sorted))
       ELSE <<r>> \o sorted

RECURSIVE sort_merged_data(_)
sort_merged_data(rs) ==
  IF rs = <<>> THEN <<>>
  ELSE InsertSorted(rs[Len(rs)], sort_merged_data(SubSeq(rs, 1, Len(rs) - 1)))

\* A test that forgets the refIDs already seen.
IsNewIgnoresSeen(refid, seen) == refid # NoRefId

\* if refid and refid not in seen_refids
IsNew(refid, seen) == refid # NoRefId /\ refid \notin seen

\* A missing file that ends the loop over the categories.
AfterMissingStop(ids) == <<>>

\* if csv_file.exists(): ... (a category without a file is skipped and the
\* loop goes on with the categories after it)
AfterMissing(ids) == Tail(ids)

\* for row in csv.DictReader(f): keep the row if its refID is non-empty and
\* not yet in seen_refids.
RECURSIVE MergeRows(_, _, _)
MergeRows(rs, acc, seen) ==
  IF rs = <<>>
  THEN [rows |-> acc, seen |-> seen]
  ELSE LET r == Head(rs) IN
       IF IsNew(r.refID, seen)
       THEN MergeRows(Tail(rs), Append(acc, r), seen \cup {r.refID})
       ELSE MergeRows(Tail(rs), acc, seen)

\* for category_id in category_ids: if csv_file.exists(): ...
RECURSIVE MergeFiles(_, _, _)
MergeFiles(ids, acc, seen) ==
  IF ids = <<>>
  THEN [rows |-> acc, seen |-> seen]
  ELSE LET f == raw_files[Head(ids)] IN
       IF ~f.exists
       THEN MergeFiles(AfterMissing(ids), acc, seen)
       ELSE LET m == MergeRows(f.rows, acc, seen)
            IN MergeFiles(Tail(ids), m.rows, m.seen)

\* duplicates_removed = len(all_rows) - len(seen_refids)
duplicates_removed(merged, seen) == Len(merged) - Cardinality(seen)

Range(f) == {f[i] : i \in DOMAIN f}

\* The lists of distinct category ids merge_csv_files is called with: the
\* successful categories, in the order they completed.
IdLists ==
  {ids \in UNION {[1..n -> Cats] : n \in 1..NumCats} :
     \A i \in DOMAIN ids, j \in DOMAIN ids : i # j => ids[i] # ids[j]}

merge_csv_files ==
  /\ mergePc = "idle"
  /\ LET m == MergeFiles(category_ids, <<>>, {})
         sorted == IF m.rows # <<>> THEN sort_merged_data(m.rows) ELSE m.rows
     IN /\ all_rows' = sorted
        /\ seen_refids' = m.seen
        /\ merged_file' = IF sorted # <<>> THEN File(sorted) ELSE merged_file
        /\ results' = [results EXCEPT
              !.merged_entries = Len(sorted),
              !.duplicates_removed = duplicates_removed(sorted, m.seen)]
  /\ mergePc' = "done"
  /\ UNCHANGED offMerge

InitMerge ==
  /\ max_category_workers = MaxCatWorkers
  /\ category_ids \in IdLists
  /\ raw_files \in [Cats -> {NoFile} \cup {File(rs) : rs \in FileContents}]
  /\ \A c \in Cats : c \notin Range(category_ids) => raw_files[c] = NoFile
  /\ retry_count = 0
  /\ catPc = [c \in Cats |-> "absent"]
  /\ attempt = [c \in Cats |-> 0]
  /\ backoffs = [c \in Cats |-> 0]
  /\ detail_links = [c \in Cats |-> <<>>]
  /\ nextIdx = [c \in Cats |-> 1]
  /\ rows = [c \in Cats |-> <<>>]
  /\ records = [c \in Cats |-> 0]
  /\ catResult = [c \in Cats |-> NoResult]
  /\ results = ResultsInit
  /\ wpc = [w \in Workers |-> "idle"]
  /\ wurl = [w \in Workers |-> 0]
  /\ wcookies = [w \in Workers |-> <<>>]
  /\ RelayInit
  /\ tl = [t \in PoolThreads |-> TlInit]
  /\ sessions = <<>>
  /\ ThreadsIdle
  /\ CrawlIdle
  /\ MergeIdle
  /\ JarIdle
  /\ LocksIdle
  /\ RunIdle
  /\ DateIdle
  /\ ExtIdle

NextMerge == merge_csv_files

SpecMerge == InitMerge /\ [][NextMerge]_vars

\* The rows merge_csv_files read from the files of ids.
RECURSIVE RowsRead(_)
RowsRead(ids) ==
  IF ids = <<>> THEN 0
  ELSE Len(raw_files[Head(ids)].rows) + RowsRead(Tail(ids))

\* ------------------------------------------------------------- SpecResults
\* scrape_single_category after scrape_category has returned: the update of
\* the results accumulator under results_lock, one step at a time, by the
\* category threads in any order.
offResults == <<category_ids, retry_count, attempt, backoffs, detail_links,
                nextIdx, rows, catResult, raw_files, workerVars, relayVars,
                poolVars, threadVars, crawlVars, mergeVars,
                max_category_workers, jarVars, rowsLock, outcomes, records,
                runVars, dateVars, extVars>>

\* What scrape_category can return.
ReturnValues ==
  {[success |-> TRUE, count |-> n, error |-> ""] : n \in 1..MaxLinks}
  \cup {[success |-> FALSE, count |-> 0, error |-> e] :
          e \in {"No links found", "No data extracted", "Error scraping"}}

\* A lock that never makes its caller wait.
ResultsLockIgnored(holder) == TRUE

\* with self.results_lock: the caller goes on when no thread holds the lock.
ResultsLockFree(holder) == holder = NoThread

ResLock(c) ==
  /\ catPc[c] = "returned"
  /\ ResultsLockFree(resultsLock)
  /\ resultsLock' = CatThread(c)
  /\ catPc' = [catPc EXCEPT ![c] = "res_locked"]
  /\ UNCHANGED <<results, rtmp, offResults>>

\* self.results["successful_categories"].append(category_id), or
\* self.results["failed_categories"].append((category_id, error)) and the
\* end of the with block.
ResAppend(c) ==
  /\ catPc[c] = "res_locked"
  /\ IF catResult[c].success
     THEN /\ results' = [results EXCEPT !.successful_categories = Append(@, c)]
          /\ catPc' = [catPc EXCEPT ![c] = "res_listed"]
          /\ UNCHANGED resultsLock
     ELSE /\ results' = [results EXCEPT !.failed_categories =
                                  Append(@, <<c, catResult[c].error>>)]
          /\ catPc' = [catPc EXCEPT ![c] = "recorded"]
          /\ resultsLock' = NoThread
  /\ UNCHANGED <<rtmp, offResults>>

\* self.results["total_entries"] += count: the read ...
ResRead(c) ==
  /\ catPc[c] = "res_listed"
  /\ rtmp' = [rtmp EXCEPT ![c] = results.total_entries]
  /\ catPc' = [catPc EXCEPT ![c] = "res_read"]
  /\ UNCHANGED <<results, resultsLock, offResults>>

\* ... and the write of the sum; the with block ends.
ResWrite(c) ==
  /\ catPc[c] = "res_read"
  /\ results' = [results EXCEPT !.total_entries = rtmp[c] + catResult[c].count]
  /\ rtmp' = [rtmp EXCEPT ![c] = 0]
  /\ resultsLock' = NoThread
  /\ catPc' = [catPc EXCEPT ![c] = "recorded"]
  /\ UNCHANGED offResults

InitResults ==
  /\ max_category_workers = MaxCatWorkers
  /\ category_ids \in {[i \in 1..n |-> i] : n \in 1..NumCats}
  /\ retry_count = 0
  /\ catPc = [c \in Cats |-> IF c <= Len(category_ids) THEN "returned"
                                                          ELSE "absent"]
  /\ catResult \in [Cats -> ReturnValues \cup {NoResult}]
  /\ \A c \in Cats : (catResult[c] = NoResult) <=> (c > Len(category_ids))
  /\ attempt = [c \in Cats |-> 0]
  /\ backoffs = [c \in Cats |-> 0]
  /\ detail_links = [c \in Cats |-> <<>>]
  /\ nextIdx = [c \in Cats |-> 1]
  /\ rows = [c \in Cats |-> <<>>]
  /\ records = [c \in Cats |-> 0]
  /\ raw_files = [c \in Cats |-> NoFile]
  /\ results = ResultsInit
  /\ wpc = [w \in Workers |-> "idle"]
  /\ wurl = [w \in Workers |-> 0]
  /\ wcookies = [w \in Workers |-> <<>>]
  /\ RelayInit
  /\ tl = [t \in PoolThreads |-> TlInit]
  /\ sessions = <<>>
  /\ ThreadsIdle
  /\ CrawlIdle
  /\ MergeIdle
  /\ JarIdle
  /\ LocksIdle
  /\ RunIdle
  /\ DateIdle
  /\ ExtIdle

NextResults ==
  \/ \E c \in Cats : ResLock(c)
  \/ \E c \in Cats : ResAppend(c)
  \/ \E c \in Cats : ResRead(c)
  \/ \E c \in Cats : ResWrite(c)

SpecResults == InitResults /\ [][NextResults]_vars

\* The sum of the counts returned by the categories of cs.
RECURSIVE SumCounts(_)
SumCounts(cs) ==
  IF cs = {} THEN 0
  ELSE LET c == CHOOSE d \in cs : TRUE
       IN catResult[c].count + SumCounts(cs \ {c})

\* --------------------------------------------------------------- SpecBatch
\* One attempt's detail pool: the executor's threads take the urls of
\* detail_links in order, call parse_detail and append under rows_lock.
\* The category is 1 and the threads are PoolThreads.
offBatch == <<category_ids, retry_count, catPc, attempt, backoffs, catResult,
              raw_files, results, workerVars, relayVars, poolVars, tcookies,
              acq, returned, crawlVars, mergeVars, max_category_workers,
              jarVars, resultsLock, rtmp, records, runVars, dateVars, extVars>>

BatchUrls == {detail_links[1][i] : i \in DOMAIN detail_links[1]}

\* executor.map: an idle thread takes the next (idx, url) pair.
BatchTake(t) ==
  /\ tpc[t] = "idle"
  /\ nextIdx[1] <= Len(detail_links[1])
  /\ targ' = [targ EXCEPT ![t] = detail_links[1][nextIdx[1]]]
  /\ nextIdx' = [nextIdx EXCEPT ![1] = @ + 1]
  /\ tpc' = [tpc EXCEPT ![t] = "call"]
  /\ UNCHANGED <<detail_links, rows, tres, rowsLock, outcomes, offBatch>>

\* row = parse_detail(url) returns or raises; a raise is caught and printed,
\* an empty row is dropped, and the thread is free again.
BatchParse(t) ==
  /\ tpc[t] = "call"
  /\ \E res \in ParseDetailResults(targ[t]) \cup {Raised} :
       /\ outcomes' = outcomes @@ (targ[t] :> res.outcome)
       /\ IF res.outcome # "raise" /\ KeepRow(res.row)
          THEN /\ tres' = [tres EXCEPT ![t] = [fetch |-> res, ctx |-> NoSession]]
               /\ tpc' = [tpc EXCEPT ![t] = "append"]
               /\ UNCHANGED targ
          ELSE /\ tpc' = [tpc EXCEPT ![t] = "idle"]
               /\ targ' = [targ EXCEPT ![t] = <<>>]
               /\ UNCHANGED tres
  /\ UNCHANGED <<detail_links, nextIdx, rows, rowsLock, offBatch>>

\* with rows_lock: the caller goes on when no thread holds the lock.
RowsLockFree(holder) == holder = NoThread

BatchLock(t) ==
  /\ tpc[t] = "append"
  /\ RowsLockFree(rowsLock)
  /\ rowsLock' = t
  /\ tpc' = [tpc EXCEPT ![t] = "locked"]
  /\ UNCHANGED <<detail_links, nextIdx, rows, targ, tres, outcomes, offBatch>>

\* rows.append(row); the with block ends.
BatchAppend(t) ==
  /\ tpc[t] = "locked"
  /\ rows' = [rows EXCEPT ![1] = Append(@, tres[t].fetch.row)]
  /\ rowsLock' = NoThread
  /\ tpc' = [tpc EXCEPT ![t] = "idle"]
  /\ targ' = [targ EXCEPT ![t] = <<>>]
  /\ tres' = [tres EXCEPT ![t] = NoCall]
  /\ UNCHANGED <<detail_links, nextIdx, outcomes, offBatch>>

\* list(executor.map(...)) has returned and the executor has joined.
BatchIsDrained ==
  /\ nextIdx[1] > Len(detail_links[1])
  /\ \A t \in PoolThreads : tpc[t] = "idle"

InitBatch ==
  /\ max_category_workers = MaxCatWorkers
  /\ category_ids = <<1>>
  /\ retry_count = 0
  /\ catPc = [c \in Cats |-> IF c = 1 THEN "fetching" ELSE "absent"]
  /\ attempt = [c \in Cats |-> 0]
  /\ backoffs = [c \in Cats |-> 0]
  /\ \E n \in 1..MaxLinks :
       detail_links = [c \in Cats |-> IF c = 1 THEN [i \in 1..n |-> i] ELSE <<>>]
  /\ nextIdx = [c \in Cats |-> 1]
  /\ rows = [c \in Cats |-> <<>>]
  /\ records = [c \in Cats |-> 0]
  /\ catResult = [c \in Cats |-> NoResult]
  /\ raw_files = [c \in Cats |-> NoFile]
  /\ results = ResultsInit
  /\ wpc = [w \in Workers |-> "idle"]
  /\ wurl = [w \in Workers |-> 0]
  /\ wcookies = [w \in Workers |-> <<>>]
  /\ RelayInit
  /\ tl = [t \in PoolThreads |-> TlInit]
  /\ sessions = <<>>
  /\ ThreadsIdle
  /\ CrawlIdle
  /\ MergeIdle
  /\ JarIdle
  /\ LocksIdle
  /\ RunIdle
  /\ DateIdle
  /\ ExtIdle

NextBatch ==
  \/ \E t \in PoolThreads : BatchTake(t)
  \/ \E t \in PoolThreads : BatchParse(t)
  \/ \E t \in PoolThreads : BatchLock(t)
  \/ \E t \in PoolThreads : BatchAppend(t)

SpecBatch == InitBatch /\ [][NextBatch]_vars

\* How often the record of url u is in the rows of category 1.
RowsOf(u) == Cardinality({i \in DOMAIN rows[1] : rows[1][i] = Record(u)})

\* The rows merge_csv_files reads, in the order it reads them: category by
\* category in the order of ids, and row by row within a file.
RECURSIVE AllRead(_)
AllRead(ids) ==
  IF ids = <<>> THEN <<>>
  ELSE raw_files[Head(ids)].rows \o AllRead(Tail(ids))

\* The orders the categories of ids can be iterated in.
Orders(ids) ==
  {p \in [DOMAIN ids -> Range(ids)] :
     \A i \in DOMAIN ids, j \in DOMAIN ids : i # j => p[i] # p[j]}

\* ------------------------------------------------------------ run modes
\* SpecRun: one run of run_interactive_mode, run_with_config or the GUI's
\* _scraper_worker: the categories are scraped, then the results decide
\* whether merge, clean and summary run.  In the GUI display_progress is
\* on_progress, which raises SystemExit when the stop event is set; the
\* handlers of scrape_category and scrape_categories_parallel catch
\* Exception only, so SystemExit leaves them.  Retries and the errors of
\* SpecPool are left to Spec: every attempt here is the first and last.
RunLinks == 3
offRun == <<category_ids, retry_count, attempt, backoffs, records, wcookies,
            relayVars, poolVars, threadVars, crawlVars, max_category_workers,
            jarVars, lockVars, dateVars, extVars, mode>>
catVars == <<catPc, detail_links, nextIdx, rows, catResult, raw_files, wpc,
             wurl, raised, afterStop>>
endVars == <<results, mergeVars, runPc, steps>>

RunModes == {"interactive", "config", "gui"}

\* The row of the notice behind link idx of category c, and the row a file
\* left by an earlier run holds.
RunRow(c, idx) ==
  [refID |-> 10 * c + idx, area_of_delivery |-> "Manila", abc_php |-> idx]
StaleRow(c) == [refID |-> 10 * c, area_of_delivery |-> "Cebu", abc_php |-> 100]

\* on_progress: if self._stop_event.is_set(): raise SystemExit(...); the
\* display_progress of the command-line modes prints and returns.
ProgressRaises == mode = "gui" /\ stop_event

\* if idx % 10 == 0 or idx == 1 or idx == len(detail_links):
\*     self.display_progress(...)
ProgressDue(idx, n) == idx % 10 = 0 \/ idx = 1 \/ idx = n

\* stop_scraping: self._stop_event.set(), while the worker thread scrapes.
SetStop ==
  /\ mode = "gui"
  /\ runPc \in {"scraping", "unwinding"}
  /\ ~stop_event
  /\ stop_event' = TRUE
  /\ UNCHANGED <<catVars, endVars, offRun>>

\* The executor starts scrape_single_category(c): "Starting to scrape".
RunEnter(c) ==
  /\ catPc[c] = "queued"
  /\ ExecutorHasFreeThread(
       Cardinality({d \in Cats : catPc[d] \in
          {"running", "found", "fetching", "cancelling", "saved",
           "returned"}}),
       max_category_workers)
  /\ catPc' = [catPc EXCEPT ![c] = IF ProgressRaises THEN "exited"
                                                     ELSE "running"]
  /\ UNCHANGED <<detail_links, nextIdx, rows, catResult, raw_files, wpc, wurl,
                 raised, afterStop, stop_event, endVars, offRun>>

\* collect_detail_links returns n links; with none scrape_category returns.
RunCrawl(c) ==
  /\ catPc[c] = "running"
  /\ \E n \in 0..RunLinks :
       IF n = 0
       THEN /\ catPc' = [catPc EXCEPT ![c] = "returned"]
            /\ catResult' = [catResult EXCEPT ![c] =
                  [success |-> FALSE, count |-> 0, error |-> "No links found"]]
            /\ UNCHANGED <<detail_links, nextIdx, rows>>
       ELSE /\ catPc' = [catPc EXCEPT ![c] = "found"]
            /\ detail_links' = [detail_links EXCEPT ![c] = [i \in 1..n |-> i]]
            /\ nextIdx' = [nextIdx EXCEPT ![c] = 1]
            /\ rows' = [rows EXCEPT ![c] = FreshRows(@)]
            /\ UNCHANGED catResult
  /\ UNCHANGED <<raw_files, wpc, wurl, raised, afterStop, stop_event, endVars,
                 offRun>>

\* "Found n opportunities", then the executor of the detail pool starts.
RunFound(c) ==
  /\ catPc[c] = "found"
  /\ catPc' = [catPc EXCEPT ![c] = IF ProgressRaises THEN "exited"
                                                     ELSE "fetching"]
  /\ UNCHANGED <<detail_links, nextIdx, rows, catResult, raw_files, wpc, wurl,
                 raised, afterStop, stop_event, endVars, offRun>>

\* A pool thread takes the next (idx, url) pair and runs
\* process_detail_page: the progress call, where one is due, then
\* parse_detail.  SystemExit out of the progress call is no Exception: it
\* ends the task and is kept in its future.
RunTake(c, k) ==
  /\ catPc[c] = "fetching"
  /\ wpc[<<c, k>>] = "idle"
  /\ nextIdx[c] <= Len(detail_links[c])
  /\ nextIdx' = [nextIdx EXCEPT ![c] = @ + 1]
  /\ IF ProgressDue(nextIdx[c], Len(detail_links[c])) /\ ProgressRaises
     THEN /\ raised' = [raised EXCEPT ![c] = @ \cup {nextIdx[c]}]
          /\ UNCHANGED <<wpc, wurl, afterStop>>
     ELSE /\ wpc' = [wpc EXCEPT ![<<c, k>>] = "call"]
          /\ wurl' = [wurl EXCEPT ![<<c, k>>] = nextIdx[c]]
          /\ afterStop' = IF stop_event
                          THEN afterStop \cup {<<c, nextIdx[c]>>}
                          ELSE afterStop
          /\ UNCHANGED raised
  /\ UNCHANGED <<catPc, detail_links, rows, catResult, raw_files, stop_event,
                 endVars, offRun>>

\* parse_detail returns a record or {}; the append; time.sleep(delay).
RunFetched(c, k) ==
  /\ wpc[<<c, k>>] = "call"
  /\ \E got \in BOOLEAN :
       rows' = [rows EXCEPT ![c] =
                  IF got THEN Append(@, RunRow(c, wurl[<<c, k>>])) ELSE @]
  /\ wpc' = [wpc EXCEPT ![<<c, k>>] = "idle"]
  /\ wurl' = [wurl EXCEPT ![<<c, k>>] = 0]
  /\ UNCHANGED <<catPc, detail_links, nextIdx, catResult, raw_files, raised,
                 afterStop, stop_event, endVars, offRun>>

\* list(executor.map(...)) yields the results in the order of the pairs:
\* at the first task that raised it raises in the category thread and
\* cancels the futures that have not started.
RunCancel(c) ==
  /\ catPc[c] = "fetching"
  /\ raised[c] # {}
  /\ \A k \in Slots :
       wpc[<<c, k>>] = "call" =>
         \E i \in raised[c] : i < wurl[<<c, k>>]
  /\ catPc' = [catPc EXCEPT ![c] = "cancelling"]
  /\ UNCHANGED <<detail_links, nextIdx, rows, catResult, raw_files, wpc, wurl,
                 raised, afterStop, stop_event, endVars, offRun>>

\* The with block of the executor waits for the running tasks; then
\* SystemExit leaves scrape_category.
RunJoin(c) ==
  /\ catPc[c] = "cancelling"
  /\ \A k \in Slots : wpc[<<c, k>>] = "idle"
  /\ catPc' = [catPc EXCEPT ![c] = "exited"]
  /\ UNCHANGED <<detail_links, nextIdx, rows, catResult, raw_files, wpc, wurl,
                 raised, afterStop, stop_event, endVars, offRun>>

\* Every task is done and none raised: the rows are written, or there are
\* none.
RunDrained(c) ==
  /\ catPc[c] = "fetching"
  /\ nextIdx[c] > Len(detail_links[c])
  /\ \A k \in Slots : wpc[<<c, k>>] = "idle"
  /\ raised[c] = {}
  /\ IF HasRows(rows[c])
     THEN /\ raw_files' = [raw_files EXCEPT ![c] = File(rows[c])]
          /\ catPc' = [catPc EXCEPT ![c] = "saved"]
          /\ UNCHANGED catResult
     ELSE /\ catPc' = [catPc EXCEPT ![c] = "returned"]
          /\ catResult' = [catResult EXCEPT ![c] =
                [success |-> FALSE, count |-> 0,
                 error |-> "No data extracted"]]
          /\ UNCHANGED raw_files
  /\ UNCHANGED <<detail_links, nextIdx, rows, wpc, wurl, raised, afterStop,
                 stop_event, endVars, offRun>>

\* "... opportunities saved"; return True, len(rows), "".
RunSaved(c) ==
  /\ catPc[c] = "saved"
  /\ IF ProgressRaises
     THEN /\ catPc' = [catPc EXCEPT ![c] = "exited"]
          /\ UNCHANGED catResult
     ELSE /\ catPc' = [catPc EXCEPT ![c] = "returned"]
          /\ catResult' = [catResult EXCEPT ![c] =
                [success |-> TRUE, count |-> Len(rows[c]), error |-> ""]]
  /\ UNCHANGED <<detail_links, nextIdx, rows, raw_files, wpc, wurl, raised,
                 afterStop, stop_event, endVars, offRun>>

\* scrape_single_category: the accumulator update under results_lock.
RunRecord(c) ==
  /\ catPc[c] = "returned"
  /\ results' =
       IF catResult[c].success
       THEN [results EXCEPT !.successful_categories = Append(@, c),
                            !.total_entries = @ + catResult[c].count]
       ELSE [results EXCEPT !.failed_categories =
                               Append(@, <<c, catResult[c].error>>)]
  /\ catPc' = [catPc EXCEPT ![c] = "recorded"]
  /\ UNCHANGED <<detail_links, nextIdx, rows, catResult, raw_files, wpc, wurl,
                 raised, afterStop, stop_event, mergeVars, runPc, steps,
                 offRun>>

\* for future in as_completed(futures): future.result() returns and
\* "Completed: ..." or "Failed: ..." is displayed, or future.result() raises
\* the SystemExit of the category; either SystemExit leaves the loop.
RunReport(c) ==
  /\ runPc = "scraping"
  /\ catPc[c] \in {"recorded", "exited"}
  /\ catPc' = [catPc EXCEPT ![c] = "reported"]
  /\ runPc' = IF catPc[c] = "exited" \/ ProgressRaises THEN "unwinding"
              ELSE runPc
  /\ UNCHANGED <<detail_links, nextIdx, rows, catResult, raw_files, wpc, wurl,
                 raised, afterStop, stop_event, results, mergeVars, steps,
                 offRun>>

\* A list of all requested categories in place of the successful ones.
MergeInputAll(requested, successful) == requested

\* self.merge_csv_files(self.results["successful_categories"])
MergeInput(requested, successful) == successful

\* merge_csv_files(ids), clean_data unless cleaning is switched off, and
\* generate_summary_report.
RunMerge(ids, clean) ==
  LET m == MergeFiles(ids, <<>>, {})
      sorted == IF m.rows # <<>> THEN sort_merged_data(m.rows) ELSE m.rows
  IN /\ all_rows' = sorted
     /\ seen_refids' = m.seen
     /\ merged_file' = IF sorted # <<>> THEN File(sorted) ELSE merged_file
     /\ results' = [results EXCEPT
           !.merged_entries = Len(sorted),
           !.duplicates_removed = duplicates_removed(sorted, m.seen)]
     /\ mergePc' = "done"
     /\ steps' = {"merge", "summary"} \cup (IF clean THEN {"clean"} ELSE {})
     /\ runPc' = "merged"

RunScraped ==
  \A c \in Cats : catPc[c] \in {"absent", "recorded", "exited", "reported"}

\* scrape_categories_parallel is over.  SystemExit reaches the handler of
\* _scraper_worker; otherwise the GUI returns if the stop event is set, and
\* every mode merges if a category succeeded.
RunEnd ==
  /\ runPc \in {"scraping", "unwinding"}
  /\ RunScraped
  /\ runPc = "scraping" => \A c \in Cats : catPc[c] \in {"absent", "reported"}
  /\ IF runPc = "unwinding" \/ (mode = "gui" /\ stop_event)
     THEN /\ runPc' = "stopped"
          /\ UNCHANGED <<results, mergeVars, steps>>
     ELSE IF results.successful_categories # <<>>
     THEN \E clean \in (IF mode = "interactive" THEN {TRUE} ELSE BOOLEAN) :
            RunMerge(MergeInput(category_ids, results.successful_categories),
                     clean)
     ELSE /\ runPc' = "no_data"
          /\ UNCHANGED <<results, mergeVars, steps>>
  /\ UNCHANGED <<catVars, stop_event, offRun>>

InitRun ==
  /\ max_category_workers = MaxCatWorkers
  /\ category_ids \in {[i \in 1..n |-> i] : n \in 1..NumCats}
  /\ retry_count = 0
  /\ catPc = [c \in Cats |-> IF c <= Len(category_ids) THEN "queued"
                                                          ELSE "absent"]
  /\ attempt = [c \in Cats |-> 0]
  /\ backoffs = [c \in Cats |-> 0]
  /\ detail_links = [c \in Cats |-> <<>>]
  /\ nextIdx = [c \in Cats |-> 1]
  /\ rows = [c \in Cats |-> <<>>]
  /\ records = [c \in Cats |-> 0]
  /\ catResult = [c \in Cats |-> NoResult]
  /\ raw_files \in [Cats -> {NoFile} \cup {File(<<StaleRow(c)>>) : c \in Cats}]
  /\ \A c \in Cats : raw_files[c] \in {NoFile, File(<<StaleRow(c)>>)}
  /\ results = ResultsInit
  /\ wpc = [w \in Workers |-> "idle"]
  /\ wurl = [w \in Workers |-> 0]
  /\ wcookies = [w \in Workers |-> <<>>]
  /\ RelayInit
  /\ tl = [t \in PoolThreads |-> TlInit]
  /\ sessions = <<>>
  /\ ThreadsIdle
  /\ CrawlIdle
  /\ MergeIdle
  /\ JarIdle
  /\ LocksIdle
  /\ DateIdle
  /\ ExtIdle
  /\ mode \in RunModes
  /\ stop_event = FALSE
  /\ runPc = "scraping"
  /\ steps = {}
  /\ afterStop = {}
  /\ raised = [c \in Cats |-> {}]

NextRun ==
  \/ SetStop
  \/ \E c \in Cats : RunEnter(c)
  \/ \E c \in Cats : RunCrawl(c)
  \/ \E c \in Cats : RunFound(c)
  \/ \E c \in Cats, k \in Slots : RunTake(c, k)
  \/ \E c \in Cats, k \in Slots : RunFetched(c, k)
  \/ \E c \in Cats : RunCancel(c)
  \/ \E c \in Cats : RunJoin(c)
  \/ \E c \in Cats : RunDrained(c)
  \/ \E c \in Cats : RunSaved(c)
  \/ \E c \in Cats : RunRecord(c)
  \/ \E c \in Cats : RunReport(c)
  \/ RunEnd

SpecRun == InitRun /\ [][NextRun]_vars

RunEnded == runPc \in {"merged", "no_data", "stopped"}
Successful == {results.successful_categories[i] :
                 i \in DOMAIN results.successful_categories}

\* ------------------------------------------------------------ the locks
\* SpecLocks: the three locks together.  The detail threads of category 1
\* fetch and append under rows_lock, threads read and publish the cookie
\* relay under _COOKIES_LOCK, and the threads of the categories that have
\* returned update the accumulator under results_lock.
InitLocks ==
  /\ max_category_workers = MaxCatWorkers
  /\ category_ids = [i \in 1..NumCats |-> i]
  /\ retry_count = 0
  /\ catPc = [c \in Cats |-> IF c = 1 THEN "fetching" ELSE "returned"]
  /\ attempt = [c \in Cats |-> 0]
  /\ backoffs = [c \in Cats |-> 0]
  /\ \E n \in 1..MaxLinks :
       detail_links = [c \in Cats |-> IF c = 1 THEN [i \in 1..n |-> i] ELSE <<>>]
  /\ nextIdx = [c \in Cats |-> 1]
  /\ rows = [c \in Cats |-> <<>>]
  /\ records = [c \in Cats |-> 0]
  /\ catResult \in [Cats -> ReturnValues \cup {NoResult}]
  /\ \A c \in Cats : (catResult[c] = NoResult) <=> (c = 1)
  /\ raw_files = [c \in Cats |-> NoFile]
  /\ results = ResultsInit
  /\ wpc = [w \in Workers |-> "idle"]
  /\ wurl = [w \in Workers |-> 0]
  /\ wcookies = [w \in Workers |-> <<>>]
  /\ RelayInit
  /\ tl = [t \in PoolThreads |-> TlInit]
  /\ sessions = <<>>
  /\ ThreadsIdle
  /\ CrawlIdle
  /\ MergeIdle
  /\ JarIdle
  /\ LocksIdle
  /\ RunIdle
  /\ DateIdle
  /\ ExtIdle

NextLocks ==
  \/ NextRelay
  \/ NextBatch
  \/ NextResults

SpecLocks == InitLocks /\ [][NextLocks]_vars

\* The program points inside the three with blocks.
InCookiesBlock(t) == tpc[t] \in {"get_locked", "set_locked"}
InRowsBlock(t) == tpc[t] = "locked"
InResultsBlock(c) == catPc[c] \in {"res_locked", "res_listed", "res_read"}

\* A thread is inside parse_detail: browser and network operations.
InParseDetail(t) == tpc[t] = "call"

\* -------------------------------------------------- clean_date (cleaner)
\* SpecDate: PhilGEPSDataCleaner.clean_date applied to one date string.  A
\* string is a sequence of characters; a date string is three digit fields
\* and the separator between them.
MaxTens == 3
Digits == <<"0", "1", "2", "3", "4", "5", "6", "7", "8", "9">>
DigitValue(ch) == (CHOOSE i \in DOMAIN Digits : Digits[i] = ch) - 1

\* int(m.group(k))
RECURSIVE ToInt(_)
ToInt(field) ==
  IF field = <<>> THEN 0
  ELSE 10 * ToInt(SubSeq(field, 1, Len(field) - 1))
         + DigitValue(field[Len(field)])

\* f"{n:02d}"
Pad2(n) ==
  IF n < 10 THEN <<"0", Digits[n + 1]>>
  ELSE <<Digits[(n \div 10) + 1], Digits[(n % 10) + 1]>>

\* m.group(k).zfill(2)
zfill2(field) == IF Len(field) < 2 THEN <<"0">> \o field ELSE field

IsLeap(y) == (y % 4 = 0 /\ y % 100 # 0) \/ y % 400 = 0
DaysIn(y, m) ==
  IF m = 2 THEN (IF IsLeap(y) THEN 29 ELSE 28)
  ELSE IF m \in {4, 6, 9, 11} THEN 30 ELSE 31

\* A strptime that accepts every string yyyy-mm-dd.
strptime_accepts_all(s) == TRUE

\* datetime.strptime(s, '%Y-%m-%d') on a string yyyy-mm-dd raises
\* ValueError unless the three numbers are a date of the calendar.
strptime_ok(s) ==
  LET y == ToInt(SubSeq(s, 1, 4))
      m == ToInt(SubSeq(s, 6, 7))
      d == ToInt(SubSeq(s, 9, 10))
  IN y >= 1 /\ m \in 1..12 /\ d >= 1 /\ d <= DaysIn(y, m)

\* None
None == <<>>

\* _try(year, month, day): the formatted string if it is a valid date.
try_date(year, month, day) ==
  LET s == year \o <<"-">> \o Pad2(month) \o <<"-">> \o Pad2(day)
  IN IF strptime_ok(s) THEN s ELSE None

\* A default that takes the month-day-year reading first.
AmbiguousMonthFirst(dmy, mdy) == IF mdy # None THEN mdy ELSE dmy

\* result = _try(yyyy, b, a) or _try(yyyy, a, b)
Ambiguous(dmy, mdy) == IF dmy # None THEN dmy ELSE mdy

\* The date_patterns loop: the first pattern that matches and whose
\* formatted result passes strptime gives the result (None: no pattern did).
date_patterns(str) ==
  LET f1 == str.f1
      f2 == str.f2
      f3 == str.f3
      iso == f1 \o <<"-">> \o zfill2(f2) \o <<"-">> \o zfill2(f3)
      dmy == f3 \o <<"-">> \o zfill2(f2) \o <<"-">> \o zfill2(f1)
      century == IF ToInt(f3) < 50 THEN <<"2", "0">> ELSE <<"1", "9">>
      yy == century \o f3 \o <<"-">> \o zfill2(f2) \o <<"-">> \o zfill2(f1)
  IN IF str.sep = "-" /\ Len(f1) = 4 /\ Len(f3) <= 2 /\ strptime_ok(iso)
     THEN iso
     ELSE IF str.sep = "-" /\ Len(f1) <= 2 /\ Len(f3) = 4 /\ strptime_ok(dmy)
     THEN dmy
     ELSE IF str.sep = "/" /\ Len(f1) <= 2 /\ Len(f3) = 2 /\ strptime_ok(yy)
     THEN yy
     ELSE None

\* clean_date(date_str) for a date string without a time component.
clean_date(str) ==
  LET first == date_patterns(str)
      a == ToInt(str.f1)
      b == ToInt(str.f2)
      yyyy == str.f3
      result ==
        IF a > 12 THEN try_date(yyyy, b, a)
        ELSE IF b > 12 THEN try_date(yyyy, a, b)
        ELSE Ambiguous(try_date(yyyy, b, a), try_date(yyyy, a, b))
  IN IF first # None THEN first
     ELSE IF str.sep = "/" /\ Len(str.f1) <= 2 /\ Len(str.f3) = 4
     THEN result
     ELSE None

\* The one- and two-digit fields, and the years, the strings are made of.
DayFields ==
  {<<Digits[d + 1]>> : d \in 0..9}
    \cup {<<Digits[t + 1], Digits[d + 1]>> : t \in 0..MaxTens, d \in 0..9}
YearFields == {<<"2", "0", "2", "4">>, <<"2", "0", "2", "3">>,
               <<"1", "9", "0", "0">>, <<"0", "0", "0", "0">>, <<"2", "4">>,
               <<"7", "5">>}
SlashDates ==
  {[sep |-> "/", f1 |-> a, f2 |-> b, f3 |-> y] :
     a \in DayFields, b \in DayFields, y \in YearFields}

\* The strings with dashes, year first or year last, and with the points that
\* no pattern of clean_date has.
LongYears == {y \in YearFields : Len(y) = 4}
DashDates ==
  {[sep |-> "-", f1 |-> y, f2 |-> b, f3 |-> c] :
     y \in LongYears, b \in DayFields, c \in DayFields}
    \cup {[sep |-> "-", f1 |-> a, f2 |-> b, f3 |-> y] :
            a \in DayFields, b \in DayFields, y \in LongYears}
PointDates ==
  {[sep |-> ".", f1 |-> a, f2 |-> <<"0", "6">>, f3 |-> <<"2", "0", "2", "4">>] :
     a \in DayFields}
DateStrings == SlashDates \cup DashDates \cup PointDates

\* The fields and the separator re.match finds in a string d..dXd..dXd..d.
FieldsOf(s) ==
  LET n1 == CHOOSE n \in 0..Len(s) :
              /\ \A i \in 1..n : s[i] \in Range(Digits)
              /\ n < Len(s) => s[n + 1] \notin Range(Digits)
      rest == SubSeq(s, n1 + 2, Len(s))
      n2 == CHOOSE n \in 0..Len(rest) :
              /\ \A i \in 1..n : rest[i] \in Range(Digits)
              /\ n < Len(rest) => rest[n + 1] \notin Range(Digits)
  IN [sep |-> s[n1 + 1], f1 |-> SubSeq(s, 1, n1), f2 |-> SubSeq(rest, 1, n2),
      f3 |-> SubSeq(rest, n2 + 2, Len(rest))]

\* clean_date applied to a column that clean_date has filled: clean_data run
\* on a file that was cleaned before.
CleanDateAgain ==
  /\ date_out # NoDate
  /\ DOMAIN date_out = {"value"}
  /\ date_out.value # None
  /\ date_out' = [value |-> date_out.value,
                  again |-> clean_date(FieldsOf(date_out.value))]
  /\ UNCHANGED <<orchVars, workerVars, relayVars, poolVars, threadVars,
                 crawlVars, mergeVars, max_category_workers, jarVars,
                 lockVars, runVars, date_in, extVars>>

CleanDate ==
  /\ date_in # NoDate
  /\ date_out = NoDate
  /\ date_out' = [value |-> clean_date(date_in)]
  /\ UNCHANGED <<orchVars, workerVars, relayVars, poolVars, threadVars,
                 crawlVars, mergeVars, max_category_workers, jarVars,
                 lockVars, runVars, date_in, extVars>>

InitDate ==
  /\ max_category_workers = MaxCatWorkers
  /\ OrchIdle
  /\ RelayInit
  /\ tl = [t \in PoolThreads |-> TlInit]
  /\ sessions = <<>>
  /\ ThreadsIdle
  /\ CrawlIdle
  /\ MergeIdle
  /\ JarIdle
  /\ LocksIdle
  /\ RunIdle
  /\ date_in \in DateStrings
  /\ date_out = NoDate
  /\ ExtIdle

NextDate == CleanDate \/ CleanDateAgain

SpecDate == InitDate /\ [][NextDate]_vars

\* The calendar, and the canonical form, a stated result is measured by.
IsCalendarDate(y, m, d) ==
  y >= 1 /\ m \in 1..12 /\ d >= 1 /\ d <= DaysIn(y, m)
Iso(yyyy, m, d) ==
  yyyy \o <<"-", Digits[(m \div 10) + 1], Digits[(m % 10) + 1], "-",
            Digits[(d \div 10) + 1], Digits[(d % 10) + 1]>>

\* ------------------------------------------------------------------ claims

\* C1: once the detail pool of a category has drained and scrape_category has
\* returned, no session created by a worker of that batch is still live.
C1_WorkerSessionsReleasedOnReturn ==
  \A c \in Cats : catPc[c] \in {"returned", "recorded"} =>
    \A sid \in DOMAIN sessions :
      (sessions[sid].owner[1] = c /\ sessions[sid].owner[2] \in Slots
         /\ sessions[sid].owner[3] = attempt[c])
      => ~sessions[sid].live

\* C2: every detail-worker session of a category carries the cookies that
\* the listing crawl of that same category published.
C2_SessionCookiesFromOwnCategory ==
  \A sid \in DOMAIN sessions :
    sessions[sid].cookies = CrawlCookies(sessions[sid].owner[1])

\* C3: a category fails with "No links found" only after all retry_count
\* retries were used.
C3_NoLinksOnlyAfterAllRetries ==
  \A c \in Cats : catResult[c].error = "No links found" =>
    attempt[c] = retry_count

\* C4: a worker's later calls of _get_thread_context return the session of
\* its first call (no release in between), and no session is returned to two
\* different workers.
C4_OneSessionPerWorker ==
  /\ \A t \in PoolThreads :
       (tpc[t] = "done" /\ tres[t].ctx # NoSession) => tres[t].ctx = acq[t]
  /\ \A p \in returned, q \in returned : p[2] = q[2] => p[1] = q[1]

\* A later call of a worker, made with another snapshot than the one its
\* session was created with, returns its first session while another worker
\* holds a session of its own.
C4_Witness ==
  \E t \in PoolThreads, u \in PoolThreads :
    /\ t # u
    /\ tpc[t] = "done"
    /\ tres[t].ctx # NoSession
    /\ tres[t].ctx = acq[t]
    /\ sessions[tres[t].ctx].cookies # tcookies[t]
    /\ acq[u] # NoSession
    /\ acq[u] # acq[t]

\* C5: every read of the relay returns the complete list of one earlier
\* publish (or the initial empty list), and the stored snapshot is exactly
\* the list of the latest publish.
C5_ReadsAreWholePublishes ==
  /\ relay = lastPub
  /\ \A t \in PoolThreads : tpc[t] = "got" => tcookies[t] \in published

\* A thread holds the copy of a snapshot that another publish has replaced.
C5_Witness ==
  \E t \in PoolThreads :
    /\ tpc[t] = "got"
    /\ tcookies[t] \in CookieLists
    /\ relay \in CookieLists
    /\ relay # tcookies[t]

\* C7: parse_detail reloads at most once, and when the interstitial is still
\* shown after the reload it returns an empty record.
C7_InterstitialAfterReloadIsEmptyRecord ==
  \A t \in PoolThreads : tpc[t] = "done" =>
    /\ tres[t].fetch.reloads <= 1
    /\ tres[t].fetch.interstitial => tres[t].fetch.outcome = "empty"

\* C8: parse_detail never raises; every failure yields an empty record.
C8_ParseDetailNeverRaises ==
  \A t \in PoolThreads : tpc[t] = "done" => tres[t].fetch.outcome # "raise"

\* C6: the merge reports duplicates_removed as the rows read from all the
\* category files minus the unique rows kept.
C6_DuplicatesRemovedIsReadMinusKept ==
  mergePc = "done" =>
    results.duplicates_removed = RowsRead(category_ids) - Len(all_rows)

\* C9: the pagination loop processes at most max_pages pages.
C9_AtMostMaxPages == page_count <= max_pages

\* The crawl has ended at the page cap although every page had a usable
\* "next" control and yielded a new link.
C9_Witness ==
  /\ crawlPc = "returned"
  /\ ended = "cap"
  /\ page_count = max_pages
  /\ Len(links) >= max_pages
  /\ lastPage.nextOK

\* C10: a page whose link collection failed is only skipped: with a usable
\* "next" control the crawl goes on to the next page (up to the page cap).
C10_CollectionFailureContinues ==
  (lastPage.failed /\ lastPage.nextOK) => (crawlPc = "loop" \/ ended = "cap")

AllRecorded == \A c \in 1..Len(category_ids) : catPc[c] = "recorded"

\* How often category c appears in the results accumulator.
Occurrences(c) ==
  Cardinality({i \in DOMAIN results.successful_categories :
                 results.successful_categories[i] = c})
  + Cardinality({i \in DOMAIN results.failed_categories :
                   results.failed_categories[i][1] = c})

\* C12: a category appears in the accumulator exactly once as soon as it is
\* recorded (so every requested category appears exactly once when the run
\* has returned), every failure carries a non-empty reason, and the run only
\* stops when every requested category has been run and recorded.
C12_EveryCategoryRecordedOnce ==
  /\ \A c \in Cats : Occurrences(c) = IF catPc[c] = "recorded" THEN 1 ELSE 0
  /\ \A i \in DOMAIN results.failed_categories :
       results.failed_categories[i][2] # ""
  /\ (~ENABLED Next) => AllRecorded

\* Category 1 failed and was recorded first; its sibling then succeeded and
\* was recorded as well.
C12_Witness ==
  /\ Len(category_ids) = 2
  /\ AllRecorded
  /\ results.failed_categories = <<<<1, "No links found">>>>
  /\ results.successful_categories = <<2>>
  /\ max_category_workers = 1

\* C13: total_entries is the sum of the counts returned by the successful
\* categories recorded so far, hence by all of them when the run has
\* returned: no update of the accumulator is lost.
C13_TotalEntriesIsSumOfCounts ==
  /\ results.total_entries =
       SumCounts({c \in Cats : catPc[c] = "recorded" /\ catResult[c].success})
  /\ \A c \in Cats : catPc[c] = "res_read" => rtmp[c] = results.total_entries

\* Two successful categories have both been recorded, category 2 first.
C13_Witness ==
  /\ AllRecorded
  /\ results.successful_categories = <<2, 1>>
  /\ results.total_entries = catResult[1].count + catResult[2].count
  /\ catResult[1].count # catResult[2].count

\* C14: every row is the record of a url whose parse_detail returned a
\* non-empty record, no such record is in the rows twice, and when the pool
\* has drained every url was fetched and each of those records is in the
\* rows exactly once.
C14_RowsAreTheNonEmptyRecords ==
  /\ \A i \in DOMAIN rows[1] :
       \E u \in DOMAIN outcomes :
         outcomes[u] = "record" /\ rows[1][i] = Record(u)
  /\ \A u \in DOMAIN outcomes : RowsOf(u) <= 1
  /\ BatchIsDrained =>
       /\ DOMAIN outcomes = BatchUrls
       /\ \A u \in BatchUrls :
            RowsOf(u) = IF outcomes[u] = "record" THEN 1 ELSE 0

\* The pool has drained: the fetch of the first url raised, the second url
\* was still fetched and its record is the only row.
C14_Witness ==
  /\ BatchIsDrained
  /\ Len(detail_links[1]) = 2
  /\ outcomes[1] = "raise"
  /\ outcomes[2] = "record"
  /\ rows[1] = <<Record(2)>>

\* C15: no two rows of a category's written output carry the same non-null
\* refID.
C15_CategoryRowsUniqueByRefId ==
  \A c \in Cats : raw_files[c].exists =>
    \A i \in DOMAIN raw_files[c].rows, j \in DOMAIN raw_files[c].rows :
      (i # j /\ raw_files[c].rows[i].refID # NoRefId)
        => raw_files[c].rows[i].refID # raw_files[c].rows[j].refID

\* C16: for every non-empty refID among the rows read, the merge keeps
\* exactly one row, the first one read with that refID; it keeps no other
\* row.
C16_MergeKeepsFirstSeen ==
  mergePc = "done" =>
    LET read == AllRead(category_ids)
        ids == {read[i].refID : i \in DOMAIN read} \ {NoRefId}
    IN /\ \A r \in ids :
            LET first == CHOOSE i \in DOMAIN read :
                           /\ read[i].refID = r
                           /\ \A j \in 1..(i - 1) : read[j].refID # r
                kept == {k \in DOMAIN all_rows : all_rows[k].refID = r}
            IN /\ Cardinality(kept) = 1
               /\ \A k \in kept : all_rows[k] = read[first]
       /\ \A k \in DOMAIN all_rows : all_rows[k].refID \in ids

\* Two category files hold different rows of refID 1; the merge has kept
\* the row of the category iterated first, here category 2.
C16_Witness ==
  /\ mergePc = "done"
  /\ category_ids = <<2, 1>>
  /\ raw_files[2].rows = <<[refID |-> 1, area_of_delivery |-> "cebu",
                            abc_php |-> 50]>>
  /\ raw_files[1].rows = <<[refID |-> 1, area_of_delivery |-> "Manila",
                            abc_php |-> 100]>>
  /\ all_rows = raw_files[2].rows

\* C17: iterating the same category files in any other order keeps the same
\* set of refIDs and the same number of rows.
C17_MergeOrderIndependent ==
  mergePc = "done" =>
    \A p \in Orders(category_ids) :
      LET m == MergeFiles(p, <<>>, {})
      IN /\ m.seen = seen_refids
         /\ Len(m.rows) = Len(all_rows)
         /\ {m.rows[i].refID : i \in DOMAIN m.rows} = seen_refids

\* Two files share a refID: another order of the categories keeps another
\* row of that refID, but the same refIDs and as many rows.
C17_Witness ==
  /\ mergePc = "done"
  /\ Len(category_ids) = NumCats
  /\ seen_refids # {}
  /\ \E p \in Orders(category_ids) :
       /\ p # category_ids
       /\ Range(MergeFiles(p, <<>>, {}).rows) # Range(all_rows)

\* The order as the specification states it: non-empty areas first, by their
\* upper-case form; then the rows of empty area; at equal area, the larger
\* budget first.
StatedOrderLeq(a, b) ==
  LET ea == IF a.area_of_delivery = "" THEN 1 ELSE 0
      eb == IF b.area_of_delivery = "" THEN 1 ELSE 0
      ra == IF ea = 1 THEN 0 ELSE StrRank(Upper(a.area_of_delivery))
      rb == IF eb = 1 THEN 0 ELSE StrRank(Upper(b.area_of_delivery))
  IN \/ ea < eb
     \/ ea = eb /\ ra < rb
     \/ ea = eb /\ ra = rb /\ AbcAmount(a.abc_php) >= AbcAmount(b.abc_php)

\* C18: the merged rows are in ascending case-insensitive order of area with
\* every empty area after every non-empty one and, at equal area, in
\* descending order of budget (no budget counting as zero).
C18_SortedEmptyAreaLast ==
  mergePc = "done" =>
    \A i \in DOMAIN all_rows, j \in DOMAIN all_rows :
      i < j => StatedOrderLeq(all_rows[i], all_rows[j])

\* C19: apart from the relay, the rows and the results accumulator, no
\* object is written by more than one thread: here, the cookie jar of the
\* module's requests.Session has at most one writing thread.
C19_JarHasOneWriter ==
  \A t \in jarWriters, u \in jarWriters : t = u

\* The categories an executor thread is busy with, and the detail fetches of
\* category c that are in flight.
InProgress == {c \in Cats : catPc[c] \in Running}
InFlight(c) == {k \in Slots : wpc[<<c, k>>] = "fetch"}

C21_ReturnLeavesPageClosedSessionCached ==
  \A t \in PoolThreads :
    (tpc[t] = "done" /\ tres[t].fetch.outcome \in {"record", "empty"}) =>
      /\ tres[t].fetch.page = "closed"
      /\ tl[TlKey(t)].ready
      /\ tl[TlKey(t)].context = tres[t].ctx
      /\ tres[t].ctx \in DOMAIN sessions
      /\ sessions[tres[t].ctx].live
      /\ sessions[tres[t].ctx].owner = t
      /\ acq[t] = tres[t].ctx

\* A call that caught an error and returned {} on a session created by an
\* earlier call of the same thread (its cookies are not this call's).
C21_Witness ==
  \E t \in PoolThreads :
    /\ tpc[t] = "done"
    /\ tres[t].fetch.outcome = "empty"
    /\ tres[t].fetch.page = "closed"
    /\ tl[TlKey(t)].ready
    /\ sessions[tres[t].ctx].live
    /\ sessions[tres[t].ctx].cookies # tcookies[t]

\* C22: a step of shutdown_thread_browser called by thread t changes only
\* t's own cache entry and t's cached session: with no session cached it
\* changes nothing, with one it closes that session and clears ready; the
\* cache entry and the sessions of every other thread stay as they were.
C22_ShutdownClosesOnlyCallersSession ==
  [][\A t \in PoolThreads :
       Shutdown(t) =>
         /\ DOMAIN sessions' = DOMAIN sessions
         /\ \A u \in PoolThreads \ {t} : tl'[u] = tl[u]
         /\ ~tl[t].ready => (tl' = tl /\ sessions' = sessions)
         /\ tl[t].ready =>
              /\ ~tl'[t].ready
              /\ ~sessions'[tl[t].context].live
              /\ \A sid \in DOMAIN sessions \ {tl[t].context} :
                    sessions'[sid] = sessions[sid]]_vars

\* One thread has shut its session down and another thread, whose session
\* is live and cached, has completed a fetch on it.
C22_Witness ==
  \E t \in PoolThreads, u \in PoolThreads :
    /\ t # u
    /\ ~tl[t].ready
    /\ tl[t].context \in DOMAIN sessions
    /\ ~sessions[tl[t].context].live
    /\ acq[t] = NoSession
    /\ tl[u].ready
    /\ sessions[tl[u].context].live
    /\ tpc[u] = "done"
    /\ tres[u].fetch.outcome = "record"
    /\ tres[u].ctx = tl[u].context

\* C23: the cookies of a session are those given at its creation: no step
\* changes the cookies of an existing session, and a _get_thread_context
\* call of a thread that has a cached session returns that session and
\* leaves every session as it was, whatever snapshot the call carries.
C23_CookiesInjectedOnlyAtCreation ==
  [][/\ \A sid \in DOMAIN sessions :
          /\ sid \in DOMAIN sessions'
          /\ sessions'[sid].cookies = sessions[sid].cookies
     /\ \A t \in PoolThreads :
          (tpc[t] = "ctx" /\ tpc'[t] = "done" /\ tl[t].ready) =>
            /\ tl'[t] = tl[t]
            /\ sessions' = sessions
            /\ tres'[t].ctx = tl[t].context]_vars

\* A call that read the latest published snapshot has been served the
\* cached session, whose cookies are still an earlier, different snapshot.
C23_Witness ==
  \E t \in PoolThreads :
    /\ tpc[t] = "done"
    /\ tres[t].fetch.outcome = "record"
    /\ tres[t].ctx = tl[t].context
    /\ tcookies[t] = lastPub
    /\ tcookies[t] # <<>>
    /\ sessions[tres[t].ctx].cookies # tcookies[t]
    /\ sessions[tres[t].ctx].cookies # <<>>

Returned(c) == catPc[c] \in {"returned", "recorded"}

C25_BoundedAttemptsLastResult ==
  \A c \in Cats :
    /\ attempt[c] <= retry_count
    /\ backoffs[c] =
         IF catPc[c] \in {"fetching", "returned", "recorded"}
         THEN attempt[c]
         ELSE IF attempt[c] = 0 THEN 0 ELSE attempt[c] - 1
    /\ (Returned(c) /\ catResult[c].success) =>
         /\ catResult[c].count = records[c]
         /\ Len(raw_files[c].rows) = records[c]
         /\ catResult[c].count <= Len(detail_links[c])

\* A category that succeeded on its last allowed attempt, a retry.
C25_Witness ==
  \E c \in Cats :
    /\ Returned(c)
    /\ catResult[c].success
    /\ attempt[c] >= 1
    /\ attempt[c] = retry_count
    /\ backoffs[c] = attempt[c]

\* C28: the list collect_detail_links returns after its loop holds every
\* link the loop discovered, each once, in the order of first discovery:
\* the link first listed on an earlier page comes before the link first
\* listed on a later page, and no url occurs twice.
C28_LinksOnceInDiscoveryOrder ==
  (crawlPc = "returned" /\ ended # "nav_error") =>
    /\ {crawl_out[i] : i \in DOMAIN crawl_out} = seen_links
    /\ \A i \in DOMAIN crawl_out, j \in DOMAIN crawl_out :
         i < j => crawl_out[i] < crawl_out[j]
    /\ crawl_out = links

\* A crawl that found links on two pages and ended on a page that listed
\* no link it had not seen.
C28_Witness ==
  /\ crawlPc = "returned"
  /\ ended = "no_new"
  /\ Len(crawl_out) >= 2
  /\ page_count >= 3

\* C30: for a slash date a/b/yyyy with a four-digit year clean_date takes
\* a as the day when a > 12, b as the day when a <= 12 < b, and when both
\* are at most 12 the day-month-year reading, falling back to
\* month-day-year only if day-month-year is no calendar date; the result
\* is the chosen reading as yyyy-mm-dd, and None if that is no date.
C30_SlashDateReading ==
  (date_out # NoDate /\ date_in.sep = "/" /\ Len(date_in.f3) = 4) =>
    LET a == ToInt(date_in.f1)
        b == ToInt(date_in.f2)
        yyyy == date_in.f3
        y == ToInt(yyyy)
        out == date_out.value
        Reading(m, d) ==
          IF IsCalendarDate(y, m, d) THEN Iso(yyyy, m, d) ELSE None
    IN /\ a > 12 => out = Reading(b, a)
       /\ (a <= 12 /\ b > 12) => out = Reading(a, b)
       /\ (a <= 12 /\ b <= 12) =>
            out = IF IsCalendarDate(y, b, a) THEN Iso(yyyy, b, a)
                  ELSE Reading(a, b)

\* 05/06/2024 has been cleaned to 2024-06-05.
C30_Witness ==
  /\ date_in = [sep |-> "/", f1 |-> <<"0", "5">>, f2 |-> <<"0", "6">>,
                f3 |-> <<"2", "0", "2", "4">>]
  /\ date_out # NoDate
  /\ date_out.value = <<"2", "0", "2", "4", "-", "0", "6", "-", "0", "5">>

\* C29: a thread that holds the cookie lock, the rows lock or the results
\* lock is inside the with block of that lock, whose only statements are
\* the list copy, the append and the counter update: it is not inside
\* parse_detail, a crawl, a file write or a sleep, and it holds no second
\* lock.
C29_LocksHeldOnlyForMemoryUpdates ==
  /\ \A t \in PoolThreads :
       /\ (cookiesLock = t) <=> InCookiesBlock(t)
       /\ (rowsLock = t) <=> InRowsBlock(t)
       /\ (cookiesLock = t \/ rowsLock = t) => ~InParseDetail(t)
       /\ resultsLock # t
  /\ \A c \in Cats :
       /\ (resultsLock = CatThread(c)) <=> InResultsBlock(c)
       /\ cookiesLock # CatThread(c)
       /\ rowsLock # CatThread(c)
  /\ cookiesLock \in PoolThreads \cup {NoThread}
  /\ rowsLock \in PoolThreads \cup {NoThread}
  /\ resultsLock \in {CatThread(c) : c \in Cats} \cup {NoThread}

\* One thread is inside parse_detail while another holds the cookie lock
\* and a category thread holds the results lock.
C29_Witness ==
  \E t \in PoolThreads, u \in PoolThreads :
    /\ t # u
    /\ InParseDetail(t)
    /\ cookiesLock = u
    /\ resultsLock # NoThread

C27_StopSuppressesNewWork ==
  /\ afterStop = {}
  /\ (RunEnded /\ stop_event) =>
       /\ steps = {}
       /\ mergePc = "idle"
       /\ \A w \in Workers : wpc[w] = "idle"

\* --------------------------------------------- clean_currency (cleaner)
\* SpecCurrency: PhilGEPSDataCleaner.clean_currency applied to one amount
\* string.  A string is a sequence of characters; Peso is the sign U+20B1.
MaxChars == 4
Peso == "PESO"
CurrencyChars == {"P", "H", Peso, "1", "5", ",", ".", " ", "x"}
IsDigit(ch) == ch \in Range(Digits)

\* The length of the longest run of characters of the set S that starts at
\* position i of s (a greedy \s*, [\d,]+ or \d*).
RECURSIVE RunLen(_, _, _)
RunLen(s, i, S) ==
  IF i > Len(s) \/ s[i] \notin S THEN 0 ELSE 1 + RunLen(s, i + 1, S)

\* ([\d,]+\.?\d*) matched at position i: the group, or None.
NumberAt(s, i) ==
  LET n1 == RunLen(s, i, Range(Digits) \cup {","})
      j == i + n1
      dot == IF j <= Len(s) /\ s[j] = "." THEN 1 ELSE 0
      n2 == IF dot = 1 THEN RunLen(s, j + 1, Range(Digits)) ELSE 0
  IN IF n1 = 0 THEN None ELSE [group |-> SubSeq(s, i, j + dot + n2 - 1)]

\* (?:PHP|Peso) at position i: the length matched, 0 for no match.
PrefixAt(s, i) ==
  IF i + 2 <= Len(s) /\ SubSeq(s, i, i + 2) = <<"P", "H", "P">> THEN 3
  ELSE IF i <= Len(s) /\ s[i] = Peso THEN 1
  ELSE 0

\* (?:PHP|Peso)\s*([\d,]+\.?\d*) matched at position i.
PrefixedAt(s, i) ==
  LET n == PrefixAt(s, i) IN
  IF n = 0 THEN None
  ELSE NumberAt(s, i + n + RunLen(s, i + n, {" "}))

\* re.search: the leftmost position of a set of matching positions.
Leftmost(hits) == CHOOSE i \in hits : \A k \in hits : i <= k

\* match = re.search(r'(?:PHP|Peso)\s*([\d,]+\.?\d*)', amount_str)
Prefixed(s) ==
  LET hits == {i \in 1..Len(s) : PrefixedAt(s, i) # None}
  IN IF hits = {} THEN None ELSE PrefixedAt(s, Leftmost(hits))

\* str.replace(',', '')
RECURSIVE RemoveCommas(_)
RemoveCommas(s) ==
  IF s = <<>> THEN <<>>
  ELSE (IF Head(s) = "," THEN <<>> ELSE <<Head(s)>>) \o RemoveCommas(Tail(s))

\* Trailing zeros of a fraction do not change the number.
RECURSIVE StripZeros(_)
StripZeros(frac) ==
  IF frac # <<>> /\ frac[Len(frac)] = "0"
  THEN StripZeros(SubSeq(frac, 1, Len(frac) - 1))
  ELSE frac

\* float(text) for a text of digits with at most one point: the number as
\* its integer part and the digits of its fraction, or the ValueError that
\* float raises for a text without a digit.
ValueError == [error |-> "ValueError"]
float(text) ==
  LET n == RunLen(text, 1, Range(Digits))
      frac == IF n < Len(text) THEN SubSeq(text, n + 2, Len(text)) ELSE <<>>
  IN IF \A i \in DOMAIN text : ~IsDigit(text[i])
     THEN ValueError
     ELSE [int |-> ToInt(SubSeq(text, 1, n)), frac |-> StripZeros(frac)]

\* numeric_match = re.search(r'([\d,]+\.?\d*)', str(amount_str))
Fallback(s) ==
  LET hits == {i \in 1..Len(s) : NumberAt(s, i) # None}
  IN IF hits = {} THEN None ELSE NumberAt(s, Leftmost(hits))

\* clean_currency(amount_str): None, or the float.
clean_currency(s) ==
  IF s = <<>> THEN None
  ELSE LET match == Prefixed(s) IN
       IF match # None
       THEN LET v == float(RemoveCommas(match.group))
            IN IF v = ValueError THEN None ELSE v
       ELSE LET numeric_match == Fallback(s) IN
            IF numeric_match # None
               /\ float(RemoveCommas(numeric_match.group)) # ValueError
            THEN float(RemoveCommas(numeric_match.group))
            ELSE None

\* The amounts the cleaner is run on: every string of up to MaxChars
\* characters, and the amounts of the cleaner's documentation.
Amounts ==
  SeqsUpTo(CurrencyChars, MaxChars)
    \cup {<<Peso, "5", "5", ",", "2", "0", "0", ".", "0", "0">>,
          <<"P", "H", "P", " ", "1", ",", "0", "0", "0">>,
          <<"P", "H", "P", " ", "5", "5", ",", "2", "0", "0", ".", "0", "0">>,
          <<"5", "5", "2", "0", "0">>}

offCurrency == <<orchVars, workerVars, relayVars, poolVars, threadVars,
                 crawlVars, mergeVars, max_category_workers, jarVars,
                 lockVars, runVars, dateVars, contactVars, driverVars,
                 guiVars>>

CleanCurrency ==
  /\ amount_out = NotRun
  /\ amount_out' = [value |-> clean_currency(amount_str)]
  /\ UNCHANGED <<amount_str, offCurrency>>

InitCurrency ==
  /\ max_category_workers = MaxCatWorkers
  /\ OrchIdle
  /\ RelayInit
  /\ tl = [t \in PoolThreads |-> TlInit]
  /\ sessions = <<>>
  /\ ThreadsIdle
  /\ CrawlIdle
  /\ MergeIdle
  /\ JarIdle
  /\ LocksIdle
  /\ RunIdle
  /\ DateIdle
  /\ amount_str \in Amounts
  /\ amount_out = NotRun
  /\ ContactIdle
  /\ DriverIdle
  /\ GuiIdle

NextCurrency == CleanCurrency

SpecCurrency == InitCurrency /\ [][NextCurrency]_vars

HasDigit(s) == \E i \in DOMAIN s : IsDigit(s[i])

\* C31: clean_currency returns the number, thousands separators removed, for
\* an amount prefixed by PHP or the peso sign and for a bare number, and it
\* returns None only for an amount that is empty or holds no digit.
C31_NullOnlyWithoutNumber ==
  /\ amount_out # NotRun
       => (amount_out.value = None => ~HasDigit(amount_str))
  /\ (amount_out # NotRun
        /\ amount_str = <<Peso, "5", "5", ",", "2", "0", "0", ".", "0", "0">>)
       => amount_out.value = [int |-> 55200, frac |-> <<>>]
  /\ (amount_out # NotRun
        /\ amount_str = <<"P", "H", "P", " ", "1", ",", "0", "0", "0">>)
       => amount_out.value = [int |-> 1000, frac |-> <<>>]

\* ------------------------------------------ _parse_contact_blob (scraper)
\* SpecContact: _parse_contact_blob applied to one contact blob.  A blob is a
\* sequence of lines and a line a sequence of tokens: words, and the comma.
MaxBlobLines == 4
LongWord == "Xx...x"
Email1 == "juan@example.com"
Phone1 == "0917-123-4567"
Disclaimer == "The PhilGEPS team is not responsible for any typographical errors"

\* len(token)
TokenLen(tok) ==
  CASE tok = "," -> 1
    [] tok \in {"2"} -> 1
    [] tok \in {"St"} -> 2
    [] tok \in {"BAC", "123"} -> 3
    [] tok \in {"Juan", "Cruz", "City"} -> 4
    [] tok \in {"Rizal", "Mayor", "Purok"} -> 5
    [] tok \in {"Quezon", "Budget"} -> 6
    [] tok = "Officer" -> 7
    [] tok = "Chairperson" -> 11
    [] tok = Phone1 -> 13
    [] tok = Email1 -> 16
    [] tok = Disclaimer -> 65
    [] tok = LongWord -> 73

\* set(re.sub(r"[^\w\s]", " ", token.lower()).split())
TokenWords(tok) ==
  CASE tok = "," -> {}
    [] tok = "2" -> {"2"}
    [] tok = "St" -> {"st"}
    [] tok = "BAC" -> {"bac"}
    [] tok = "123" -> {"123"}
    [] tok = "Juan" -> {"juan"}
    [] tok = "Cruz" -> {"cruz"}
    [] tok = "City" -> {"city"}
    [] tok = "Rizal" -> {"rizal"}
    [] tok = "Mayor" -> {"mayor"}
    [] tok = "Purok" -> {"purok"}
    [] tok = "Quezon" -> {"quezon"}
    [] tok = "Budget" -> {"budget"}
    [] tok = "Officer" -> {"officer"}
    [] tok = "Chairperson" -> {"chairperson"}
    [] tok = Phone1 -> {"0917", "123", "4567"}
    [] tok = Email1 -> {"juan", "example", "com"}
    [] tok = Disclaimer -> {"the", "philgeps", "team", "is", "not",
                            "responsible", "for", "any", "typographical",
                            "errors"}
    [] tok = LongWord -> {"xx...x"}

\* The keywords of _POSITION_KEYWORDS and _ADDRESS_KEYWORDS that a word of
\* the tokens above can be, and "st.", which no word set can hold.
POSITION_KEYWORDS == {"bac", "chairperson", "officer", "budget", "mayor",
                      "city"}
ADDRESS_KEYWORDS == {"st.", "city", "purok"}

\* len(line): the tokens, a space between two of them, none before a comma.
RECURSIVE LineLen(_)
LineLen(line) ==
  IF line = <<>> THEN 0
  ELSE TokenLen(Head(line)) + LineLen(Tail(line))
         + (IF Len(line) > 1 /\ line[2] # "," THEN 1 ELSE 0)

LineWords(line) == UNION {TokenWords(line[i]) : i \in DOMAIN line}

\* A test that does not look at the address keywords.
is_position_title_any_address(text) ==
  /\ text # <<>>
  /\ LineLen(text) <= 80
  /\ LineWords(text) \cap POSITION_KEYWORDS # {}

\* _is_position_title(text)
is_position_title(text) ==
  IF text = <<>> THEN FALSE
  ELSE IF LineLen(text) > 80 THEN FALSE
  ELSE IF LineWords(text) \cap ADDRESS_KEYWORDS # {} THEN FALSE
  ELSE IF LineWords(text) \cap POSITION_KEYWORDS # {} THEN TRUE
  ELSE FALSE

\* _is_junk_text(val): the disclaimer of the notice page.
is_junk_text(lines) ==
  \E i \in DOMAIN lines : \E k \in DOMAIN lines[i] : lines[i][k] = Disclaimer

\* The tokens of the lines, in order.
RECURSIVE Flatten(_)
Flatten(lines) ==
  IF lines = <<>> THEN <<>> ELSE Head(lines) \o Flatten(Tail(lines))

\* re.findall(r'[\w\.-]+@[\w\.-]+\.\w+', text)
Emails(lines) == LET IsEmail(tok) == tok = Email1
                 IN SelectSeq(Flatten(lines), IsEmail)

\* re.findall of the phone pattern, kept when it has seven digits or more.
Phones(lines) == LET IsPhone(tok) == tok = Phone1
                 IN SelectSeq(Flatten(lines), IsPhone)

\* " / ".join(valid_phones), ", ".join(address_parts)
RECURSIVE Join(_, _)
Join(parts, sep) ==
  IF parts = <<>> THEN <<>>
  ELSE IF Len(parts) = 1 THEN parts[1]
  ELSE parts[1] \o <<sep>> \o Join(Tail(parts), sep)

\* text.replace(email, "") on every line.
RemoveEmail(lines, email) ==
  LET Other(tok) == tok # email
  IN [i \in DOMAIN lines |-> SelectSeq(lines[i], Other)]

\* lines[0].split(","): the parts, stripped, the empty ones left out.
RECURSIVE SplitCommas(_, _)
SplitCommas(line, part) ==
  IF line = <<>> THEN (IF part = <<>> THEN <<>> ELSE <<part>>)
  ELSE IF Head(line) = ","
       THEN (IF part = <<>> THEN <<>> ELSE <<part>>)
              \o SplitCommas(Tail(line), <<>>)
       ELSE SplitCommas(Tail(line), Append(part, Head(line)))

\* lines = [ln.strip() for ln in text.split('\n') if ln.strip()], and the
\* split of a single line that has a comma into its parts.
ContactLines(text) ==
  LET NonEmpty(ln) == ln # <<>>
      lines == SelectSeq(text, NonEmpty)
      parts == IF Len(lines) = 1 THEN SplitCommas(lines[1], <<>>) ELSE <<>>
  IN IF Len(lines) = 1 /\ (\E k \in DOMAIN lines[1] : lines[1][k] = ",")
        /\ Len(parts) >= 2
     THEN parts
     ELSE lines

\* A loop that takes the first matching line wherever it comes.
TakesPositionAnywhere(position, address_parts, ln) ==
  position = None /\ is_position_title(ln)

\* if position is None and not address_parts and _is_position_title(ln)
TakesPosition(position, address_parts, ln) ==
  position = None /\ address_parts = <<>> /\ is_position_title(ln)

\* for ln in lines[1:] of the branch whose first line is the name.
RECURSIVE AfterName(_, _, _, _)
AfterName(lns, phone, position, address_parts) ==
  IF lns = <<>>
  THEN [position |-> position, address_parts |-> address_parts]
  ELSE LET ln == Head(lns) IN
       IF phone # None /\ ln = phone
       THEN AfterName(Tail(lns), phone, position, address_parts)
       ELSE IF TakesPosition(position, address_parts, ln)
       THEN AfterName(Tail(lns), phone, ln, address_parts)
       ELSE AfterName(Tail(lns), phone, position, Append(address_parts, ln))

\* for ln in lines[1:] of the branch whose first line is the position.
AfterPosition(lns, phone) ==
  LET NotPhone(ln) == ~(phone # None /\ ln = phone)
  IN SelectSeq(lns, NotPhone)

AllNone == [name |-> None, position |-> None, address |-> None,
            email |-> None, phone |-> None]

\* _parse_contact_blob(contact_text)
parse_contact_blob(blob) ==
  IF blob = <<>> \/ is_junk_text(blob) THEN AllNone
  ELSE
    LET emails == Emails(blob)
        email == IF emails # <<>> THEN <<emails[1]>> ELSE None
        text == IF email # None THEN RemoveEmail(blob, emails[1])
                ELSE blob
        valid_phones == Phones(text)
        phone == IF valid_phones # <<>>
                 THEN Join([i \in DOMAIN valid_phones |-> <<valid_phones[i]>>],
                           "/")
                 ELSE None
        lines == ContactLines(text)
    IN IF lines = <<>>
       THEN [AllNone EXCEPT !.email = email, !.phone = phone]
       ELSE
         LET first == lines[1]
             r == IF is_position_title(first)
                  THEN [name |-> None, position |-> first,
                        address_parts |-> AfterPosition(Tail(lines), phone)]
                  ELSE [name |-> first] @@
                         AfterName(Tail(lines), phone, None, <<>>)
         IN [name |-> r.name, position |-> r.position,
             address |-> IF r.address_parts # <<>>
                         THEN Join(r.address_parts, ",") ELSE None,
             email |-> email, phone |-> phone]

\* The lines a blob is made of.
BlobLines ==
  { <<"Juan", "Cruz">>,
    <<"BAC", "Chairperson">>,
    <<"123", "Rizal", "St", ",", "Quezon", "City">>,
    <<"City", "Mayor">>,
    <<"Purok", "2">>,
    <<"Budget", "Officer">>,
    <<"Officer", LongWord>>,
    <<"Juan", "Cruz", ",", "BAC", "Chairperson">>,
    <<Email1>>,
    <<Phone1>>,
    <<Disclaimer>> }
Blobs == SeqsUpTo(BlobLines, MaxBlobLines)

offContact == <<orchVars, workerVars, relayVars, poolVars, threadVars,
                crawlVars, mergeVars, max_category_workers, jarVars,
                lockVars, runVars, dateVars, currencyVars, driverVars,
                guiVars>>

ParseContactBlob ==
  /\ contact_out = NotRun
  /\ contact_out' = parse_contact_blob(contact_text)
  /\ UNCHANGED <<contact_text, offContact>>

InitContact ==
  /\ max_category_workers = MaxCatWorkers
  /\ OrchIdle
  /\ RelayInit
  /\ tl = [t \in PoolThreads |-> TlInit]
  /\ sessions = <<>>
  /\ ThreadsIdle
  /\ CrawlIdle
  /\ MergeIdle
  /\ JarIdle
  /\ LocksIdle
  /\ RunIdle
  /\ DateIdle
  /\ CurrencyIdle
  /\ contact_text \in Blobs
  /\ contact_out = NotRun
  /\ DriverIdle
  /\ GuiIdle

NextContact == ParseContactBlob

SpecContact == InitContact /\ [][NextContact]_vars

\* The lines and the phone string _parse_contact_blob works on, for a blob it
\* does not reject; the lines after the first that are not the phone string.
LinesOf(blob) ==
  LET emails == Emails(blob)
  IN ContactLines(IF emails # <<>> THEN RemoveEmail(blob, emails[1]) ELSE blob)
PhoneOf(blob) ==
  LET emails == Emails(blob)
      ps == Phones(IF emails # <<>> THEN RemoveEmail(blob, emails[1]) ELSE blob)
  IN IF ps = <<>> THEN None ELSE Join([i \in DOMAIN ps |-> <<ps[i]>>], "/")
Remaining(blob) ==
  LET IsOther(ln) == PhoneOf(blob) = None \/ ln # PhoneOf(blob)
  IN SelectSeq(Tail(LinesOf(blob)), IsOther)
Parsed ==
  /\ contact_out # NotRun
  /\ contact_text # <<>>
  /\ ~is_junk_text(contact_text)
  /\ LinesOf(contact_text) # <<>>
JoinOrNone(lns) == IF lns = <<>> THEN None ELSE Join(lns, ",")
Without(sq, i) == SubSeq(sq, 1, i - 1) \o SubSeq(sq, i + 1, Len(sq))
ExampleBlob == << <<"BAC", "Chairperson">>,
                  <<"123", "Rizal", "St", ",", "Quezon", "City">>,
                  <<Email1>>, <<Phone1>> >>

\* C32 (as stated): when the first line is the name, the first later line
\* that is a position title becomes the position, wherever it comes, and
\* every other remaining line goes to the address.
C32_FirstMatchingLineIsPosition ==
  (Parsed /\ ~is_position_title(LinesOf(contact_text)[1])) =>
    LET rest == Remaining(contact_text)
        hits == {i \in DOMAIN rest : is_position_title(rest[i])}
    IN IF hits = {}
       THEN /\ contact_out.position = None
            /\ contact_out.address = JoinOrNone(rest)
       ELSE LET i == CHOOSE i \in hits : \A k \in hits : i <= k
            IN /\ contact_out.position = rest[i]
               /\ contact_out.address = JoinOrNone(Without(rest, i))

\* C32 (amended): when the first line is the name, the line directly after it
\* (the phone line skipped) becomes the position if it is a position title;
\* every other remaining line goes to the address, a position title that
\* comes after an address line included.
C32_PositionDirectlyAfterName ==
  (Parsed /\ ~is_position_title(LinesOf(contact_text)[1])) =>
    LET rest == Remaining(contact_text)
    IN /\ contact_out.name = LinesOf(contact_text)[1]
       /\ IF rest # <<>> /\ is_position_title(rest[1])
          THEN /\ contact_out.position = rest[1]
               /\ contact_out.address = JoinOrNone(Tail(rest))
          ELSE /\ contact_out.position = None
               /\ contact_out.address = JoinOrNone(rest)

C32_Witness ==
  /\ contact_text = << <<"Juan", "Cruz">>, <<"Purok", "2">>,
                       <<"BAC", "Chairperson">> >>
  /\ contact_out # NotRun
  /\ contact_out.name = <<"Juan", "Cruz">>
  /\ contact_out.position = None
  /\ contact_out.address = <<"Purok", "2", ",", "BAC", "Chairperson">>

\* C33: the first line is the position, and the name is null, exactly when
\* its word set holds a position keyword and no address keyword and the line
\* is at most 80 characters long; otherwise it is the name.  The blob of the
\* lines "BAC Chairperson", "123 Rizal St, Quezon City", the email and the
\* phone gives that position, that address, that email, that phone and no
\* name.
C33_FirstLineClassification ==
  /\ Parsed =>
       LET first == LinesOf(contact_text)[1]
           title == /\ LineWords(first) \cap POSITION_KEYWORDS # {}
                    /\ LineWords(first) \cap ADDRESS_KEYWORDS = {}
                    /\ LineLen(first) <= 80
       IN IF title
          THEN contact_out.name = None /\ contact_out.position = first
          ELSE contact_out.name = first
  /\ (contact_out # NotRun /\ contact_text = ExampleBlob) =>
       contact_out = [name |-> None,
                      position |-> <<"BAC", "Chairperson">>,
                      address |-> <<"123", "Rizal", "St", ",", "Quezon",
                                    "City">>,
                      email |-> <<Email1>>,
                      phone |-> <<Phone1>>]

C33_Witness ==
  /\ contact_text = ExampleBlob
  /\ contact_out # NotRun
  /\ contact_out.name = None
  /\ contact_out.position = <<"BAC", "Chairperson">>

\* C34: when collect_detail_links fails before the first listing page has
\* rendered, it returns an empty list with its browser closed and the cookie
\* relay is left as it was: the snapshot published before stays in place.
C34_NavFailureLeavesRelay ==
  [][(crawlPc = "idle" /\ crawlPc' = "returned")
       => /\ ended' = "nav_error"
          /\ crawl_out' = <<>>
          /\ ~browser_open'
          /\ relay' = relay
          /\ published' = published]_vars

C34_Witness ==
  /\ crawlPc = "returned"
  /\ ended = "nav_error"
  /\ crawl_out = <<>>
  /\ relay # <<>>
  /\ relay = lastPub
  /\ publishes = 0

\* ------------------------------------------------- the sequential drivers
\* SpecDriver: the command-line entry point of final_working_scraper and
\* ScraperPipeline.run_scraper.  Both collect the links and call parse_detail
\* for each of them on the one thread they run on, then remove the duplicate
\* refIDs and write the rows.
MaxDriverLinks == 2
Drivers == {"cli", "pipeline"}
MainThread == <<1, 1, 0>>

\* An href without "refID=", for which re.search(r"refID=(\d+)", url) is None.
UrlNoRefId == 0
DriverUrls == {UrlNoRefId, 1, 2, 3}
UrlLists ==
  {us \in SeqsUpTo(DriverUrls, MaxDriverLinks) :
     \A i \in DOMAIN us, j \in DOMAIN us : i # j => us[i] # us[j]}

\* The dict parse_detail returns for a page that was read.
DriverRow(url) ==
  IF url = UrlNoRefId THEN [refID |-> NoRefId, url |-> url] ELSE Record(url)

\* row.get("refID"): None for the empty dict.
RefIdGet(row) == IF "refID" \in DOMAIN row THEN row.refID ELSE NoRefId

\* A dedup that keeps only the rows that have a refID, as the merge does.
RECURSIVE dedup_rows_with_refid(_, _, _)
dedup_rows_with_refid(rs, deduped, seen) ==
  IF rs = <<>> THEN deduped
  ELSE LET rid == RefIdGet(Head(rs)) IN
       IF rid # NoRefId /\ rid \notin seen
       THEN dedup_rows_with_refid(Tail(rs), Append(deduped, Head(rs)),
                                  seen \cup {rid})
       ELSE dedup_rows_with_refid(Tail(rs), deduped, seen)

\* for row in rows: rid = row.get("refID"); if rid and rid in seen: continue;
\* if rid: seen.add(rid); deduped.append(row)
RECURSIVE dedup_rows(_, _, _)
dedup_rows(rs, deduped, seen) ==
  IF rs = <<>> THEN deduped
  ELSE LET rid == RefIdGet(Head(rs)) IN
       IF rid # NoRefId /\ rid \in seen
       THEN dedup_rows(Tail(rs), deduped, seen)
       ELSE dedup_rows(Tail(rs), Append(deduped, Head(rs)),
                       IF rid # NoRefId THEN seen \cup {rid} ELSE seen)

\* w = csv.DictWriter(f, fieldnames=deduped[0].keys()); w.writeheader();
\* w.writerows(deduped): the rows written before a row that has a key
\* outside the field names raises ValueError, and whether it did.
RECURSIVE WriteRows(_, _, _)
WriteRows(rs, fieldnames, written) ==
  IF rs = <<>> THEN [rows |-> written, raised |-> FALSE]
  ELSE IF DOMAIN Head(rs) \subseteq fieldnames
       THEN WriteRows(Tail(rs), fieldnames, Append(written, Head(rs)))
       ELSE [rows |-> written, raised |-> TRUE]

offDriver == <<orchVars, workerVars, cookiesLock, threadVars, crawlVars,
               mergeVars, max_category_workers, lockVars, runVars, dateVars,
               currencyVars, contactVars, guiVars>>

\* detail_urls = collect_detail_links(), and the slice by the limit: the
\* crawl cannot start its browser and raises, fails to navigate and returns
\* [], or returns the links and has published its cookies.
DrvCollect ==
  /\ drvPc = "start"
  /\ \/ /\ drvPc' = "error"
        /\ UNCHANGED <<target_urls, relay, published, lastPub>>
     \/ /\ drvPc' = "loop"
        /\ target_urls' = <<>>
        /\ UNCHANGED <<relay, published, lastPub>>
     \/ /\ drvPc' = "loop"
        /\ target_urls' \in UrlLists
        /\ \E cookies \in CookieLists :
             /\ relay' = set_playwright_cookies(relay, cookies)
             /\ published' = published \cup {cookies}
             /\ lastPub' = cookies
  /\ UNCHANGED <<driver, scraped, output_file, poolVars, jarVars, offDriver>>

\* rows.append(parse_detail(u)) in the command line; row = parse_detail(url);
\* if row: rows.append(row) in the pipeline.
AppendRow(d, rs, row) ==
  IF d = "cli" \/ KeepRow(row) THEN Append(rs, row) ELSE rs

\* One round of the loop over the urls: parse_detail(u) inside try/except
\* Exception.  The session cannot be created, the page cannot be opened, or
\* the page opens and parse_detail returns a dict.
DrvParse ==
  /\ drvPc = "loop"
  /\ target_urls # <<>>
  /\ target_urls' = Tail(target_urls)
  /\ LET u == Head(target_urls)
         cookies == get_playwright_cookies(relay)
     IN /\ session_jar' = sync_cookies_to_requests_session(session_jar, cookies)
        /\ jarWriters' = JarWrittenBy(MainThread, cookies)
        /\ \/ /\ ~tl[TlKey(MainThread)].ready
              /\ UNCHANGED <<poolVars, scraped>>
           \/ /\ get_thread_context(MainThread, cookies)
              /\ UNCHANGED scraped
           \/ /\ get_thread_context(MainThread, cookies)
              /\ \E res \in ParseDetailResults(u) :
                   scraped' = AppendRow(driver, scraped,
                       IF res.outcome = "record" THEN DriverRow(u)
                       ELSE EmptyRecord)
  /\ UNCHANGED <<driver, drvPc, output_file, relay, published, lastPub,
                 offDriver>>

\* The command line calls shutdown_thread_browser() after the loop;
\* run_scraper has no such call.
DriverShutsDown(d) == d = "cli"

\* The loop is over: shutdown_thread_browser() where the driver calls it.
DrvLoopEnd ==
  /\ drvPc = "loop"
  /\ target_urls = <<>>
  /\ drvPc' = "scraped"
  /\ IF DriverShutsDown(driver)
     THEN shutdown_thread_browser(MainThread)
     ELSE UNCHANGED poolVars
  /\ UNCHANGED <<driver, target_urls, scraped, output_file, relay, published,
                 lastPub, jarVars, offDriver>>

\* if not rows: raise SystemExit("No rows scraped.") / return False
DrvNoRows ==
  /\ drvPc = "scraped"
  /\ scraped = <<>>
  /\ drvPc' = "no_rows"
  /\ UNCHANGED <<driver, target_urls, scraped, output_file, relay, published,
                 lastPub, poolVars, jarVars, offDriver>>

\* The dedup and the write of the output file: open(output, "w") creates the
\* file, deduped[0] raises for an empty list and writerows for a row that
\* does not fit the header.
DrvSave ==
  /\ drvPc = "scraped"
  /\ scraped # <<>>
  /\ LET deduped == dedup_rows(scraped, <<>>, {})
         w == IF deduped = <<>> THEN [rows |-> <<>>, raised |-> TRUE]
              ELSE WriteRows(deduped, DOMAIN deduped[1], <<>>)
     IN /\ output_file' = File(w.rows)
        /\ drvPc' = IF w.raised THEN "error" ELSE "finished"
  /\ UNCHANGED <<driver, target_urls, scraped, relay, published, lastPub,
                 poolVars, jarVars, offDriver>>

InitDriver ==
  /\ max_category_workers = MaxCatWorkers
  /\ OrchIdle
  /\ RelayInit
  /\ tl = [t \in PoolThreads |-> TlInit]
  /\ sessions = <<>>
  /\ ThreadsIdle
  /\ CrawlIdle
  /\ MergeIdle
  /\ JarIdle
  /\ LocksIdle
  /\ RunIdle
  /\ DateIdle
  /\ CurrencyIdle
  /\ ContactIdle
  /\ driver \in Drivers
  /\ drvPc = "start"
  /\ target_urls = <<>>
  /\ scraped = <<>>
  /\ output_file = NoFile
  /\ GuiIdle

NextDriver ==
  \/ DrvCollect
  \/ DrvParse
  \/ DrvLoopEnd
  \/ DrvNoRows
  \/ DrvSave

SpecDriver == InitDriver /\ [][NextDriver]_vars

DriverDone == drvPc \in {"finished", "no_rows", "error"}

\* C36: every driver that calls parse_detail sequentially on one thread has
\* released that thread's session with shutdown_thread_browser when it
\* finishes: on success, with no rows, and on the error paths.
C36_DriversReleaseSession ==
  DriverDone =>
    /\ ~tl[TlKey(MainThread)].ready
    /\ \A sid \in DOMAIN sessions : ~sessions[sid].live

\* --------------------------------------------------- the two dedup passes
\* SpecDedup: a run of a sequential driver, whose output goes through the
\* single-category dedup, next to a merge_csv_files call over the raw file
\* of one category.
InitDedup ==
  /\ max_category_workers = MaxCatWorkers
  /\ category_ids \in {ids \in IdLists : Len(ids) = 1}
  /\ raw_files \in [Cats -> {NoFile} \cup {File(rs) : rs \in FileContents}]
  /\ \A c \in Cats : c \notin Range(category_ids) => raw_files[c] = NoFile
  /\ retry_count = 0
  /\ catPc = [c \in Cats |-> "absent"]
  /\ attempt = [c \in Cats |-> 0]
  /\ backoffs = [c \in Cats |-> 0]
  /\ detail_links = [c \in Cats |-> <<>>]
  /\ nextIdx = [c \in Cats |-> 1]
  /\ rows = [c \in Cats |-> <<>>]
  /\ records = [c \in Cats |-> 0]
  /\ catResult = [c \in Cats |-> NoResult]
  /\ results = ResultsInit
  /\ wpc = [w \in Workers |-> "idle"]
  /\ wurl = [w \in Workers |-> 0]
  /\ wcookies = [w \in Workers |-> <<>>]
  /\ RelayInit
  /\ tl = [t \in PoolThreads |-> TlInit]
  /\ sessions = <<>>
  /\ ThreadsIdle
  /\ CrawlIdle
  /\ MergeIdle
  /\ JarIdle
  /\ LocksIdle
  /\ RunIdle
  /\ DateIdle
  /\ CurrencyIdle
  /\ ContactIdle
  /\ driver \in Drivers
  /\ drvPc = "start"
  /\ target_urls = <<>>
  /\ scraped = <<>>
  /\ output_file = NoFile
  /\ GuiIdle

NextDedup == NextMerge \/ NextDriver

SpecDedup == InitDedup /\ [][NextDedup]_vars

\* The rows of a list that have no refID.
WithoutRefId(rs) ==
  LET Lacks(row) == RefIdGet(row) = NoRefId IN SelectSeq(rs, Lacks)

\* C35: every row of the merged output has a non-empty refID, merge_csv_files
\* having dropped the rows whose refID is empty, whereas the dedup of the
\* command line and of run_scraper keeps every row that has no refID.
C35_MergeDropsEmptyRefIdDedupKeeps ==
  /\ mergePc = "done" =>
       /\ \A i \in DOMAIN all_rows : all_rows[i].refID # NoRefId
       /\ \A i \in DOMAIN merged_file.rows :
            merged_file.rows[i].refID # NoRefId
  /\ drvPc = "finished" =>
       WithoutRefId(output_file.rows) = WithoutRefId(scraped)

C35_Witness ==
  /\ mergePc = "done"
  /\ \E c \in Range(category_ids) :
       raw_files[c].exists /\ WithoutRefId(raw_files[c].rows) # <<>>
  /\ merged_file.rows # <<>>
  /\ drvPc = "finished"
  /\ Len(WithoutRefId(output_file.rows)) = 2

\* ----------------------------------------------------------------- the GUI
\* SpecGui: the START and STOP buttons of PhilGEPSScraperGUI, the worker
\* threads start_scraping launches and the "finished" messages they leave in
\* the progress queue for check_progress_queue.  scraper_threads holds every
\* thread started so far, "running" or "exited".
MaxStarts == 4

offGui == <<orchVars, workerVars, relayVars, poolVars, threadVars, crawlVars,
            mergeVars, max_category_workers, jarVars, lockVars, dateVars,
            currencyVars, contactVars, driverVars, mode, runPc, steps,
            afterStop, raised>>

RunningWorkers == {i \in DOMAIN scraper_threads : scraper_threads[i] = "running"}

\* start_scraping, the command of the START button (a disabled button does
\* not call it), with a category selected: the stop event is cleared, the
\* buttons are switched and a new thread runs _scraper_worker.
start_scraping ==
  /\ start_button = "normal"
  /\ Len(scraper_threads) < MaxStarts
  /\ stop_event' = FALSE
  /\ start_button' = "disabled"
  /\ stop_button' = "normal"
  /\ is_scraping' = TRUE
  /\ scraper_threads' = Append(scraper_threads, "running")
  /\ UNCHANGED <<progress_queue, offGui>>

\* stop_scraping, the command of the STOP button, the question answered with
\* yes: the stop event is set and START is enabled again at once.
stop_scraping ==
  /\ stop_button = "normal"
  /\ is_scraping
  /\ stop_event' = TRUE
  /\ is_scraping' = FALSE
  /\ start_button' = "normal"
  /\ stop_button' = "disabled"
  /\ UNCHANGED <<scraper_threads, progress_queue, offGui>>

\* _scraper_worker comes to its end, by itself or through the SystemExit that
\* on_progress raises once the stop event is set:
\* finally: self.progress_queue.put(("finished",))
WorkerFinished(i) ==
  /\ scraper_threads[i] = "running"
  /\ scraper_threads' = [scraper_threads EXCEPT ![i] = "exited"]
  /\ progress_queue' = Append(progress_queue, "finished")
  /\ UNCHANGED <<is_scraping, start_button, stop_button, stop_event, offGui>>

\* check_progress_queue with messages waiting: every "finished" message
\* enables START, disables STOP and clears is_scraping.
check_progress_queue ==
  /\ progress_queue # <<>>
  /\ progress_queue' = <<>>
  /\ start_button' = "normal"
  /\ stop_button' = "disabled"
  /\ is_scraping' = FALSE
  /\ UNCHANGED <<scraper_threads, stop_event, offGui>>

InitGui ==
  /\ max_category_workers = MaxCatWorkers
  /\ OrchIdle
  /\ RelayInit
  /\ tl = [t \in PoolThreads |-> TlInit]
  /\ sessions = <<>>
  /\ ThreadsIdle
  /\ CrawlIdle
  /\ MergeIdle
  /\ JarIdle
  /\ LocksIdle
  /\ RunIdle
  /\ DateIdle
  /\ CurrencyIdle
  /\ ContactIdle
  /\ DriverIdle
  /\ is_scraping = FALSE
  /\ start_button = "normal"
  /\ stop_button = "disabled"
  /\ scraper_threads = <<>>
  /\ progress_queue = <<>>

NextGui ==
  \/ start_scraping
  \/ stop_scraping
  \/ \E i \in DOMAIN scraper_threads : WorkerFinished(i)
  \/ check_progress_queue

SpecGui == InitGui /\ [][NextGui]_vars

\* C37: in the GUI at most one scraper worker thread is running at any time:
\* after any sequence of start, stop and finished events, start_scraping
\* cannot launch a second _scraper_worker while an earlier one still runs.
C37_AtMostOneWorker == Cardinality(RunningWorkers) <= 1

\* C38: after a thread has called shutdown_thread_browser, its next
\* _get_thread_context call creates a new session and injects the snapshot
\* passed to that call, the closed session staying closed; until that call
\* nothing of the thread's changes, so a second shutdown_thread_browser is a
\* no-op.
C38_AcquireAfterShutdownIsFresh ==
  [][\A t \in PoolThreads :
       /\ (/\ ~tl[t].ready
           /\ tl[t].context # NoSession
           /\ tl'[t].ready) =>
            LET sid == tl'[t].context IN
            /\ sid \notin DOMAIN sessions
            /\ sid \in DOMAIN sessions'
            /\ sessions'[sid] =
                 [owner |-> t, cookies |-> tcookies[t], live |-> TRUE]
            /\ tres'[t].ctx = sid
            /\ ~sessions'[tl[t].context].live
       /\ (/\ ~tl[t].ready
           /\ tl[t].context # NoSession
           /\ ~tl'[t].ready) =>
            /\ tl'[t] = tl[t]
            /\ \A sid \in DOMAIN sessions' :
                 sessions'[sid].owner = t =>
                   sid \in DOMAIN sessions /\ sessions'[sid] = sessions[sid]]_vars

\* A thread on its second session: the first is closed, the second was given
\* the snapshot of the call that created it, which is not the first's.
C38_Witness ==
  \E t \in PoolThreads :
    /\ tpc[t] = "done"
    /\ tl[t].ready
    /\ tres[t].ctx = tl[t].context
    /\ sessions[tl[t].context].cookies = tcookies[t]
    /\ \E old \in DOMAIN sessions :
         /\ old # tl[t].context
         /\ sessions[old].owner = t
         /\ ~sessions[old].live
         /\ sessions[old].cookies # tcookies[t]

\* A string of the form dddd-dd-dd.
IsIsoShaped(s) ==
  /\ Len(s) = 10
  /\ s[5] = "-" /\ s[8] = "-"
  /\ \A i \in {1, 2, 3, 4, 6, 7, 9, 10} : s[i] \in Range(Digits)

\* C39: clean_date returns None or a zero-padded string yyyy-mm-dd that is a
\* date of the calendar, and clean_date of such a result is that result.
C39_CleanDateValidAndIdempotent ==
  date_out # NoDate =>
    LET v == date_out.value IN
    /\ v = None
         \/ /\ IsIsoShaped(v)
            /\ IsCalendarDate(ToInt(SubSeq(v, 1, 4)), ToInt(SubSeq(v, 6, 7)),
                              ToInt(SubSeq(v, 9, 10)))
    /\ "again" \in DOMAIN date_out => date_out.again = v

\* 5/6/2024 was cleaned to 2024-06-05, and that to itself.
C39_Witness ==
  /\ date_in = [sep |-> "/", f1 |-> <<"5">>, f2 |-> <<"6">>,
                f3 |-> <<"2", "0", "2", "4">>]
  /\ "again" \in DOMAIN date_out
  /\ date_out.value = <<"2", "0", "2", "4", "-", "0", "6", "-", "0", "5">>
  /\ date_out.again = date_out.value
====
